---- MODULE Spec2Model ----
(***************************************************************************)
(* A model of the Kern data plane: the raw deflate codec (miniz.c), Base32 *)
(* and the BBQr transport (base32.c, bbqr.c), the KEF envelope (kef.c),    *)
(* the secret-memory helpers (secure_mem.h) and the background encryption  *)
(* of the KEF encrypt page (kef_encrypt_page.c), Base43 (base43.c), the    *)
(* storage file names (storage.c) and the mnemonic QR codes (encoder.c).   *)
(*                                                                         *)
(* Each subsystem has its own specification over its own variables; the    *)
(* variables of the other subsystems stay at their initial values.         *)
(***************************************************************************)
EXTENDS Integers, Sequences, FiniteSets, TLC

VARIABLES
  \* deflate codec
  df_phase, df_src, df_wbits, df_comp, df_res,
  \* BBQr transport
  bq_phase, bq_in, bq_parts, bq_joined, bq_out,
  \* KEF envelope
  kf_phase, kf_args, kf_enc, kf_env, kf_dec,
  \* KEF encrypt page
  pg,
  \* the allocating inflate, Base32, Base43, the BBQr part header, the KEF
  \* header, the storage file names and the mnemonic QR codes
  al, b32, b43, pp, hd, sn, mn,
  \* the iteration field of the KEF header, the QR format detection, the
  \* inflater on its own and the LZ77 loop of the encoder step by step
  itr, fm, inf, lz

df_vars == <<df_phase, df_src, df_wbits, df_comp, df_res>>
bq_vars == <<bq_phase, bq_in, bq_parts, bq_joined, bq_out>>
kf_vars == <<kf_phase, kf_args, kf_enc, kf_env, kf_dec>>
fn_vars == <<al, b32, b43, pp, hd, sn, mn>>
gx_vars == <<itr, fm, inf, lz>>
vars == <<df_vars, bq_vars, kf_vars, pg, fn_vars, gx_vars>>

\* What the operations of one subsystem leave alone
df_others == <<bq_vars, kf_vars, pg, fn_vars, gx_vars>>
bq_others == <<df_vars, kf_vars, pg, fn_vars, gx_vars>>
kf_others == <<df_vars, bq_vars, pg, fn_vars, gx_vars>>
pg_others == <<df_vars, bq_vars, kf_vars, fn_vars, gx_vars>>
al_others == <<df_vars, bq_vars, kf_vars, pg, b32, b43, pp, hd, sn, mn, gx_vars>>
b32_others == <<df_vars, bq_vars, kf_vars, pg, al, b43, pp, hd, sn, mn, gx_vars>>
b43_others == <<df_vars, bq_vars, kf_vars, pg, al, b32, pp, hd, sn, mn, gx_vars>>
pp_others == <<df_vars, bq_vars, kf_vars, pg, al, b32, b43, hd, sn, mn, gx_vars>>
hd_others == <<df_vars, bq_vars, kf_vars, pg, al, b32, b43, pp, sn, mn, gx_vars>>
sn_others == <<df_vars, bq_vars, kf_vars, pg, al, b32, b43, pp, hd, mn, gx_vars>>
mn_others == <<df_vars, bq_vars, kf_vars, pg, al, b32, b43, pp, hd, sn, gx_vars>>
itr_others == <<df_vars, bq_vars, kf_vars, pg, fn_vars, fm, inf, lz>>
fm_others == <<df_vars, bq_vars, kf_vars, pg, fn_vars, itr, inf, lz>>
lz_others == <<df_vars, bq_vars, kf_vars, pg, fn_vars, itr, fm, inf>>
inf_others == <<df_vars, bq_vars, kf_vars, pg, fn_vars, itr, fm, lz>>

(***************************************************************************)
(* Machine arithmetic on bytes and words.                                  *)
(***************************************************************************)
Byte == 0..255

Min2(a, b) == IF a < b THEN a ELSE b

RECURSIVE BitXor(_, _)
BitXor(a, b) ==
  IF a = 0 THEN b
  ELSE IF b = 0 THEN a
  ELSE (((a % 2) + (b % 2)) % 2) + 2 * BitXor(a \div 2, b \div 2)

RECURSIVE BitOr(_, _)
BitOr(a, b) ==
  IF a = 0 THEN b
  ELSE IF b = 0 THEN a
  ELSE (IF a % 2 = 1 \/ b % 2 = 1 THEN 1 ELSE 0) + 2 * BitOr(a \div 2, b \div 2)

\* x << n and x >> n on unsigned values
Shl(x, n) == x * (2 ^ n)
Shr(x, n) == x \div (2 ^ n)

\* A byte sequence of n copies of b
Rep(b, n) == [i \in 1..n |-> b]

\* s[from .. from+n-1], 0-based `from`
Slice(s, from, n) == [i \in 1..n |-> s[from + i]]

(***************************************************************************)
(* miniz.c: raw deflate encoder (LZ77 + static Huffman).                   *)
(***************************************************************************)
MZ_DEFAULT_WBITS == 10
MATCH_LEN_MIN == 3
MATCH_LEN_MAX == 258

s_mirror_nibble == <<0, 8, 4, 12, 2, 10, 6, 14, 1, 9, 5, 13, 3, 11, 7, 15>>

mirror_byte(b) ==
  (s_mirror_nibble[(b % 16) + 1] * 16 + s_mirror_nibble[(b \div 16) + 1]) % 256

RECURSIVE int_log2(_)
int_log2(x) == IF x \div 2 = 0 THEN 0 ELSE 1 + int_log2(x \div 2)

\* The compressor state (mz_compress_state_t) plus the status of the last
\* out_bits call.  out is out_buf[0 .. out_pos-1].  hist_buf comes from
\* malloc: it holds the cells written so far, 0 .. Len(hist_buf)-1, and the
\* cells after them hold nothing that may be read.
CompressInit(out_size, hist_max) ==
  [out |-> <<>>, out_size |-> out_size, out_bits |-> 0, n_out_bits |-> 0,
   hist_buf |-> <<>>, hist_max |-> hist_max,
   hist_start |-> 0, hist_len |-> 0, ret |-> "MZ_OK"]

\* The while loop of out_bits: move whole bytes from the bit buffer to out_buf
RECURSIVE out_bits_flush(_)
out_bits_flush(s) ==
  IF s.n_out_bits < 8 THEN s
  ELSE IF Len(s.out) >= s.out_size THEN [s EXCEPT !.ret = "MZ_BUF_ERROR"]
  ELSE out_bits_flush([s EXCEPT !.out = Append(@, s.out_bits % 256),
                                !.out_bits = @ \div 256,
                                !.n_out_bits = @ - 8])

\* out_bits: n_out_bits < 8 on entry and nbits <= 13, so the shifted bits
\* stay below 2^21 and the uint32_t bit buffer never wraps.
out_bits(s, bits, nbits) ==
  IF s.ret # "MZ_OK" THEN s
  ELSE out_bits_flush([s EXCEPT !.out_bits = BitOr(@, Shl(bits, s.n_out_bits)),
                                !.n_out_bits = @ + nbits])

out_literal(s, c) ==
  IF c <= 143 THEN out_bits(s, mirror_byte(48 + c), 8)
  ELSE out_bits(s, 1 + 2 * mirror_byte((144 - 144 + c) % 256), 9)

\* One piece of out_match: thislen is already reduced by 3, distance by 1
out_match_piece(s, distance, thislen) ==
  LET x0 == int_log2(thislen)
      x == IF thislen < 255 /\ x0 # 0 THEN x0 - 1 ELSE x0
      y == Shr(thislen, IF x # 0 THEN x - 1 ELSE 0) % 4
      lcode == IF thislen < 255 THEN x * 4 + y ELSE 28
      s1 == IF lcode <= 22 THEN out_bits(s, mirror_byte((lcode + 1) * 2), 7)
            ELSE out_bits(s, mirror_byte(lcode + 169), 8)
      s2 == IF thislen < 255 /\ x > 1
            THEN out_bits(s1, thislen - Shl(Shr(thislen, x - 1), x - 1), x - 1)
            ELSE s1
      dx == int_log2(distance)
      dy == Shr(distance, IF dx # 0 THEN dx - 1 ELSE 0) % 2
      s3 == out_bits(s2, mirror_byte((dx * 2 + dy) * 8), 5)
      s4 == IF dx > 1
            THEN out_bits(s3, distance - Shl(Shr(distance, dx - 1), dx - 1), dx - 1)
            ELSE s3
  IN s4

\* The while (len > 0) loop of out_match, distance already reduced by 1
RECURSIVE out_match_loop(_, _, _)
out_match_loop(s, distance, len) ==
  IF len <= 0 \/ s.ret # "MZ_OK" THEN s
  ELSE LET thislen == IF len > 260 THEN 258 ELSE IF len <= 258 THEN len ELSE len - 3
       IN out_match_loop(out_match_piece(s, distance, thislen - 3), distance,
                         len - thislen)

\* A variant of out_match that emits the distance without the bias of one
out_match_unbiased(s, distance, len) == out_match_loop(s, distance, len)

out_match(s, distance, len) == out_match_loop(s, distance - 1, len)

start_block(s) == out_bits(s, 3, 3)

finish_block(s) ==
  LET s1 == out_bits(s, 0, 7)
  IN IF s1.ret # "MZ_OK" THEN s1
     ELSE IF s1.n_out_bits > 0 THEN out_bits(s1, 0, 8 - s1.n_out_bits)
     ELSE s1

\* The byte lz77_find_match compares src[match_len] with: from the history
\* window, or from the source itself once the match runs past the history.
\* src is the whole input, pos the 0-based offset of the src pointer.
find_match_hist(s, src, pos, hist_search, match_len) ==
  IF hist_search + match_len < s.hist_len
  THEN s.hist_buf[((s.hist_start + hist_search + match_len) % s.hist_max) + 1]
  ELSE src[pos + (hist_search + match_len - s.hist_len) + 1]

\* Inner loop of lz77_find_match over match_len in [lo, hi): the first
\* match_len at which the loop breaks, hi if none.  The range is halved so
\* that a 258-step loop needs no deep recursion.
RECURSIVE find_match_len(_, _, _, _, _, _)
find_match_len(s, src, pos, hist_search, lo, hi) ==
  IF lo >= hi THEN hi
  ELSE IF hi = lo + 1
  THEN IF src[pos + lo + 1] # find_match_hist(s, src, pos, hist_search, lo)
       THEN lo ELSE hi
  ELSE LET mid == (lo + hi) \div 2
           m == find_match_len(s, src, pos, hist_search, lo, mid)
       IN IF m < mid THEN m
          ELSE find_match_len(s, src, pos, hist_search, mid, hi)

\* Whether a candidate replaces the best match so far
find_match_takes(match_len, longest_len) ==
  match_len >= MATCH_LEN_MIN /\ match_len >= longest_len

\* Outer loop of lz77_find_match over hist_search in [lo, hi), carrying
\* best = [len, offset].  The test on the first half's result only makes TLC
\* compute it before the second half starts; a length is never negative.
RECURSIVE find_match_scan(_, _, _, _, _, _)
find_match_scan(s, src, pos, best, lo, hi) ==
  IF lo >= hi THEN best
  ELSE IF hi = lo + 1
  THEN LET src_len == Len(src) - pos
           match_len == find_match_len(s, src, pos, lo, 0,
                                       Min2(MATCH_LEN_MAX, src_len))
       IN IF find_match_takes(match_len, best.len)
          THEN [len |-> match_len, offset |-> s.hist_len - lo]
          ELSE best
  ELSE LET mid == (lo + hi) \div 2
           first == find_match_scan(s, src, pos, best, lo, mid)
       IN IF first.len >= 0 THEN find_match_scan(s, src, pos, first, mid, hi)
          ELSE first

lz77_find_match(s, src, pos) ==
  find_match_scan(s, src, pos, [len |-> 0, offset |-> 0], 0, s.hist_len)

\* One iteration of hist_push that never drops the oldest byte
hist_push_byte_grow(s, b) ==
  [s EXCEPT !.hist_buf = IF (s.hist_start + s.hist_len) % s.hist_max = Len(@)
                         THEN Append(@, b)
                         ELSE [@ EXCEPT ![((s.hist_start + s.hist_len) % s.hist_max) + 1] = b],
            !.hist_len = @ + 1]

\* One iteration of hist_push
hist_push_byte(s, b) ==
  LET at == (s.hist_start + s.hist_len) % s.hist_max
      s1 == [s EXCEPT !.hist_buf = IF at = Len(@) THEN Append(@, b)
                                   ELSE [@ EXCEPT ![at + 1] = b]]
  IN IF s1.hist_len = s1.hist_max
     THEN [s1 EXCEPT !.hist_start = (@ + 1) % s1.hist_max]
     ELSE [s1 EXCEPT !.hist_len = @ + 1]

\* hist_push of src[pos+lo .. pos+hi-1], the range halved as above.  The
\* test on the first half's result only makes TLC compute it before the
\* second half starts; it always holds after a push.
RECURSIVE hist_push_range(_, _, _, _, _)
hist_push_range(s, src, pos, lo, hi) ==
  IF lo >= hi THEN s
  ELSE IF hi = lo + 1 THEN hist_push_byte(s, src[pos + lo + 1])
  ELSE LET mid == (lo + hi) \div 2
           first == hist_push_range(s, src, pos, lo, mid)
       IN IF first.hist_len > 0 THEN hist_push_range(first, src, pos, mid, hi)
          ELSE first

hist_push(s, src, pos, len) == hist_push_range(s, src, pos, 0, len)

\* The while (src < end) loop of lz77_compress; the guard on ret is the
\* caller's if (ret == MZ_OK)
RECURSIVE lz77_compress_from(_, _, _)

\* if (ret != MZ_OK) return ret; hist_push(s, src, n); src += n
lz77_compress_step(s1, src, pos, n) ==
  IF s1.ret # "MZ_OK" THEN s1
  ELSE lz77_compress_from(hist_push(s1, src, pos, n), src, pos + n)

lz77_compress_from(s, src, pos) ==
  IF s.ret # "MZ_OK" \/ pos >= Len(src) THEN s
  ELSE LET m == lz77_find_match(s, src, pos)
       IN IF m.len = 0
          THEN lz77_compress_step(out_literal(s, src[pos + 1]), src, pos, 1)
          ELSE lz77_compress_step(out_match(s, m.offset, m.len), src, pos, m.len)

\* lz77_compress, entered only while ret == MZ_OK
lz77_compress(s, src) == lz77_compress_from(s, src, 0)

\* mz_deflate_raw_wbits: the final compressor state; ret is what it returns,
\* out what it wrote to dest, and hist_buf what the window it frees holds
mz_deflate_raw_wbits(dest_len, source, wbits) ==
  finish_block(lz77_compress(start_block(
    CompressInit(dest_len, 2 ^ (IF wbits < 8 \/ wbits > 15 THEN MZ_DEFAULT_WBITS
                                ELSE wbits))), source))

\* alloc_size of mz_deflate_raw_alloc_wbits
deflate_alloc_size(source_len) ==
  IF source_len + (source_len \div 8) + 64 < 256 THEN 256
  ELSE source_len + (source_len \div 8) + 64

\* mz_deflate_raw_alloc_wbits: the state mz_deflate_raw_wbits ends in; the
\* function returns NULL unless ret = "MZ_OK"
mz_deflate_raw_alloc_wbits(source, wbits) ==
  mz_deflate_raw_wbits(deflate_alloc_size(Len(source)), source, wbits)

mz_deflate_raw_alloc(source) == mz_deflate_raw_alloc_wbits(source, MZ_DEFAULT_WBITS)

\* What mz_deflate_raw_alloc_wbits releases, d being the state its
\* mz_deflate_raw_wbits ends in: the history window, which holds the last
\* hist_max source bytes, and on failure the output buffer
mz_deflate_frees(d) ==
  <<[buf |-> "hist_buf", holds |-> "plaintext", zeroized |-> FALSE]>>
  \o (IF d.ret # "MZ_OK"
      THEN <<[buf |-> "deflate_dest", holds |-> "deflate", zeroized |-> FALSE]>>
      ELSE <<>>)

(***************************************************************************)
(* miniz.c: raw inflate.                                                   *)
(***************************************************************************)
s_length_base ==
  <<3, 4, 5, 6, 7, 8, 9, 10, 11, 13, 15, 17, 19, 23, 27,
    31, 35, 43, 51, 59, 67, 83, 99, 115, 131, 163, 195, 227, 258>>
s_length_extra ==
  <<0, 0, 0, 0, 0, 0, 0, 0, 1, 1, 1, 1, 2, 2, 2, 2, 3, 3, 3, 3,
    4, 4, 4, 4, 5, 5, 5, 5, 0>>
s_dist_base ==
  <<1, 2, 3, 4, 5, 7, 9, 13, 17, 25, 33, 49, 65, 97, 129, 193, 257, 385,
    513, 769, 1025, 1537, 2049, 3073, 4097, 6145, 8193, 12289, 16385, 24577>>
s_dist_extra ==
  <<0, 0, 0, 0, 1, 1, 2, 2, 3, 3, 4, 4, 5, 5, 6, 6, 7, 7, 8, 8,
    9, 9, 10, 10, 11, 11, 12, 12, 13, 13>>
s_code_order ==
  <<16, 17, 18, 0, 8, 7, 9, 6, 10, 5, 11, 4, 12, 3, 13, 2, 14, 1, 15>>

\* The symbols of one code length, in symbol order (lengths is 1-based:
\* lengths[i + 1] is the code length of symbol i)
RECURSIVE SymbolsOfLength(_, _, _, _)
SymbolsOfLength(lengths, len, lo, hi) ==
  IF lo >= hi THEN <<>>
  ELSE IF hi = lo + 1 THEN (IF lengths[lo + 1] = len THEN <<lo>> ELSE <<>>)
  ELSE LET mid == (lo + hi) \div 2
       IN SymbolsOfLength(lengths, len, lo, mid) \o SymbolsOfLength(lengths, len, mid, hi)

RECURSIVE SymbolsUpTo(_, _, _)
SymbolsUpTo(lengths, num_syms, len) ==
  IF len = 0 THEN <<>>
  ELSE SymbolsUpTo(lengths, num_syms, len - 1) \o SymbolsOfLength(lengths, len, 0, num_syms)

\* build_huffman: counts[len] for len in 0..15 and the symbols sorted by code
\* length, then by symbol value
build_huffman(lengths, num_syms) ==
  [counts |-> [len \in 0..15 |->
                 IF len = 0 THEN 0
                 ELSE Cardinality({i \in 1..num_syms : lengths[i] = len})],
   symbols |-> SymbolsUpTo(lengths, num_syms, 15)]

\* The decoder state: src, pos (0-based offset of pSrc), bit_buf, num_bits,
\* the output written so far and its capacity, the status the function
\* returns once it is no longer MZ_OK, and the value last read
InflateInit(source, cap) ==
  [src |-> source, pos |-> 0, bit_buf |-> 0, num_bits |-> 0, out |-> <<>>,
   cap |-> cap, status |-> "MZ_OK", val |-> 0]

\* return <status>
InflateFail(st, status) == [st EXCEPT !.status = status]

\* while (num_bits < n) refill; MZ_DATA_ERROR when the source runs out.
\* num_bits < n <= 14 when a byte is added, so the uint32_t bit_buf never wraps.
RECURSIVE need_bits(_, _)
need_bits(st, n) ==
  IF st.status # "MZ_OK" \/ st.num_bits >= n THEN st
  ELSE IF st.pos >= Len(st.src) THEN InflateFail(st, "MZ_DATA_ERROR")
  ELSE need_bits([st EXCEPT !.bit_buf = BitOr(@, Shl(st.src[st.pos + 1], st.num_bits)),
                            !.num_bits = @ + 8,
                            !.pos = @ + 1], n)

\* val = bit_buf & ((1 << n) - 1); bit_buf >>= n; num_bits -= n
take_bits(st, n) ==
  IF st.status # "MZ_OK" THEN st
  ELSE [st EXCEPT !.val = st.bit_buf % (2 ^ n),
                  !.bit_buf = @ \div (2 ^ n),
                  !.num_bits = @ - n]

\* refill, then take the low n bits
read_bits(st, n) == take_bits(need_bits(st, n), n)

\* decode_huffman_simple: val is the symbol; every caller returns
\* MZ_DATA_ERROR when no symbol is found
RECURSIVE decode_huffman_from(_, _, _, _, _, _)
decode_huffman_from(h, st, len, code, first, index) ==
  IF len > 15 THEN InflateFail(st, "MZ_DATA_ERROR")
  ELSE LET r == read_bits(st, 1)
           c == code * 2 + r.val
           count == h.counts[len]
       IN IF r.status # "MZ_OK" THEN r
          ELSE IF c - first < count
          THEN [r EXCEPT !.val = h.symbols[index + c - first + 1]]
          ELSE decode_huffman_from(h, r, len + 1, c, (first + count) * 2,
                                   index + count)

decode_huffman_simple(h, st) == decode_huffman_from(h, st, 1, 0, 0, 0)

fixed_lit_lengths ==
  [i \in 1..288 |-> IF i - 1 < 144 THEN 8
                    ELSE IF i - 1 < 256 THEN 9
                    ELSE IF i - 1 < 280 THEN 7 ELSE 8]
fixed_dist_lengths == [i \in 1..30 |-> 5]

\* build_fixed_tables
fixed_lit_len_table == build_huffman(fixed_lit_lengths, 288)
fixed_dist_table == build_huffman(fixed_dist_lengths, 30)

\* while (match_len-- > 0) *pDst++ = *pMatch++, for bytes [lo, hi) of the
\* match, the range halved.  The test on the first half's result only makes
\* TLC compute it before the second half starts; it always holds after a copy.
RECURSIVE copy_match(_, _, _, _)
copy_match(out, match_dist, lo, hi) ==
  IF lo >= hi THEN out
  ELSE IF hi = lo + 1 THEN Append(out, out[Len(out) - match_dist + 1])
  ELSE LET mid == (lo + hi) \div 2
           first == copy_match(out, match_dist, lo, mid)
       IN IF Len(first) > 0 THEN copy_match(first, match_dist, mid, hi)
          ELSE first

\* match_dist_bad refusing a distance one byte too late
match_dist_bad_late(match_dist, produced) == match_dist > produced + 1

\* Whether a back-reference is refused: it starts before the output
match_dist_bad(match_dist, produced) == match_dist > produced

\* Whether n more bytes overflow the output capacity
dest_full(st, n) == Len(st.out) + n > st.cap

\* The symbol loop of a fixed or dynamic block, one operator per value read:
\* the literal/length symbol, the length extra bits, the distance symbol and
\* the distance extra bits
RECURSIVE inflate_codes(_, _, _)

inflate_copy(de, dist_base, match_len, lit, dist) ==
  IF de.status # "MZ_OK" THEN de
  ELSE IF match_dist_bad(dist_base + de.val, Len(de.out))
  THEN InflateFail(de, "MZ_DATA_ERROR")
  ELSE IF dest_full(de, match_len) THEN InflateFail(de, "MZ_BUF_ERROR")
  ELSE inflate_codes([de EXCEPT !.out = copy_match(@, dist_base + de.val, 0, match_len)],
                     lit, dist)

inflate_distance(ds, match_len, lit, dist) ==
  IF ds.status # "MZ_OK" THEN ds
  ELSE IF ds.val >= 30 THEN InflateFail(ds, "MZ_DATA_ERROR")
  ELSE inflate_copy(read_bits(ds, s_dist_extra[ds.val + 1]), s_dist_base[ds.val + 1],
                    match_len, lit, dist)

inflate_length(le, len_idx, lit, dist) ==
  IF le.status # "MZ_OK" THEN le
  ELSE inflate_distance(decode_huffman_simple(dist, le),
                        s_length_base[len_idx + 1] + le.val, lit, dist)

inflate_symbol(d, lit, dist) ==
  IF d.status # "MZ_OK" THEN d
  ELSE IF d.val < 256
  THEN IF dest_full(d, 1) THEN InflateFail(d, "MZ_BUF_ERROR")
       ELSE inflate_codes([d EXCEPT !.out = Append(@, d.val)], lit, dist)
  ELSE IF d.val = 256 THEN d
  ELSE IF d.val - 257 >= 29 THEN InflateFail(d, "MZ_DATA_ERROR")
  ELSE inflate_length(read_bits(d, s_length_extra[d.val - 257 + 1]), d.val - 257,
                      lit, dist)

inflate_codes(st, lit, dist) == inflate_symbol(decode_huffman_simple(lit, st), lit, dist)

\* A stored block
inflate_stored(st0) ==
  LET st == [st0 EXCEPT !.num_bits = 0, !.bit_buf = 0]
      len == st.src[st.pos + 1] + 256 * st.src[st.pos + 2]
      nlen == st.src[st.pos + 3] + 256 * st.src[st.pos + 4]
      st1 == [st EXCEPT !.pos = @ + 4]
  IN IF st.pos + 4 > Len(st.src) THEN InflateFail(st, "MZ_DATA_ERROR")
     ELSE IF len # 65535 - nlen THEN InflateFail(st1, "MZ_DATA_ERROR")
     ELSE IF st1.pos + len > Len(st1.src) THEN InflateFail(st1, "MZ_DATA_ERROR")
     ELSE IF dest_full(st1, len) THEN InflateFail(st1, "MZ_BUF_ERROR")
     ELSE [st1 EXCEPT !.out = @ \o Slice(st1.src, st1.pos, len), !.pos = @ + len]

\* The hclen 3-bit code length code lengths, in s_code_order: [st, lengths]
RECURSIVE read_code_lengths(_, _, _, _)
read_code_lengths(st, i, hclen, code_lengths) ==
  IF i >= hclen \/ st.status # "MZ_OK" THEN [st |-> st, lengths |-> code_lengths]
  ELSE LET r == read_bits(st, 3)
       IN read_code_lengths(r, i + 1, hclen,
            IF r.status # "MZ_OK" THEN code_lengths
            ELSE [code_lengths EXCEPT ![s_code_order[i + 1] + 1] = r.val])

\* while (repeat-- > 0 && i < total) lengths[i++] = v
RepeatLength(lengths, total, repeat, v) ==
  lengths \o Rep(v, Min2(repeat, total - Len(lengths)))

\* The literal/length and distance code lengths of a dynamic block:
\* [st, lengths], lengths holding lengths[0 .. i-1]
RECURSIVE read_lengths(_, _, _, _)

\* After the repeat count of symbol 16, 17 or 18 was read
read_length_repeat(r, clt, total, lengths, base, v) ==
  IF r.status # "MZ_OK" THEN [st |-> r, lengths |-> lengths]
  ELSE read_lengths(r, clt, total, RepeatLength(lengths, total, base + r.val, v))

\* After a code length symbol was decoded
read_length_symbol(d, clt, total, lengths) ==
  IF d.status # "MZ_OK" THEN [st |-> d, lengths |-> lengths]
  ELSE IF d.val < 16 THEN read_lengths(d, clt, total, Append(lengths, d.val))
  ELSE IF d.val > 18 \/ (d.val = 16 /\ Len(lengths) = 0)
  THEN [st |-> InflateFail(d, "MZ_DATA_ERROR"), lengths |-> lengths]
  ELSE read_length_repeat(
         read_bits(d, IF d.val = 16 THEN 2 ELSE IF d.val = 17 THEN 3 ELSE 7),
         clt, total, lengths,
         IF d.val = 18 THEN 11 ELSE 3,
         IF d.val = 16 THEN lengths[Len(lengths)] ELSE 0)

read_lengths(st, clt, total, lengths) ==
  IF Len(lengths) >= total THEN [st |-> st, lengths |-> lengths]
  ELSE read_length_symbol(decode_huffman_simple(clt, st), clt, total, lengths)

\* A dynamic block, one operator per table read: the header, the code length
\* code, the literal/length and distance code lengths
dynamic_codes(ls, hlit, hdist) ==
  IF ls.st.status # "MZ_OK" THEN ls.st
  ELSE inflate_codes(ls.st,
         build_huffman(SubSeq(ls.lengths, 1, hlit), hlit),
         build_huffman(SubSeq(ls.lengths, hlit + 1, hlit + hdist), hdist))

dynamic_lengths(cl, hlit, hdist) ==
  IF cl.st.status # "MZ_OK" THEN cl.st
  ELSE dynamic_codes(read_lengths(cl.st, build_huffman(cl.lengths, 19),
                                  hlit + hdist, <<>>), hlit, hdist)

dynamic_header(h) ==
  LET hlit == (h.val % 32) + 257
      hdist == ((h.val \div 32) % 32) + 1
      hclen == ((h.val \div 1024) % 16) + 4
  IN IF h.status # "MZ_OK" THEN h
     ELSE IF hlit > 286 \/ hdist > 30 THEN InflateFail(h, "MZ_DATA_ERROR")
     ELSE dynamic_lengths(read_code_lengths(h, 0, hclen, Rep(0, 19)), hlit, hdist)

inflate_dynamic(st) == dynamic_header(read_bits(st, 14))

\* The while (!final_block) loop of inflate_raw_impl
RECURSIVE inflate_blocks(_)

inflate_block_body(h, block_type) ==
  IF block_type = 0 THEN inflate_stored(h)
  ELSE IF block_type = 1 THEN inflate_codes(h, fixed_lit_len_table, fixed_dist_table)
  ELSE IF block_type = 2 THEN inflate_dynamic(h)
  ELSE InflateFail(h, "MZ_DATA_ERROR")

inflate_block_end(b, final_block) ==
  IF b.status # "MZ_OK" \/ final_block = 1 THEN b ELSE inflate_blocks(b)

inflate_block(h) ==
  IF h.status # "MZ_OK" THEN h
  ELSE inflate_block_end(inflate_block_body(h, (h.val \div 2) % 4), h.val % 2)

inflate_blocks(st) == inflate_block(read_bits(st, 3))

\* inflate_raw_impl(dest, &dest_len, source, source_len): the final state;
\* status is what it returns and out what it wrote to dest, also on an error
inflate_raw_impl(dest_len, source) == inflate_blocks(InflateInit(source, dest_len))

\* adler32(1, data, len) as <<s2, s1>>, the two halves of the checksum.  The
\* code reduces modulo 65521 after each block of 5550 bytes, which is short
\* enough for the sums not to wrap; reducing after each byte gives the same
\* halves.
RECURSIVE adler32(_, _)
adler32(data, len) ==
  IF len = 0 THEN <<0, 1>>
  ELSE LET prev == adler32(data, len - 1)
           s1 == (prev[2] + data[len]) % 65521
       IN <<(prev[1] + s1) % 65521, s1>>

\* mz_uncompress after the header checks: r is what inflate_raw_impl left
mz_uncompress_verify(r, source) ==
  IF r.status # "MZ_OK" THEN r
  ELSE IF adler32(r.out, Len(r.out))
          # <<source[Len(source) - 3] * 256 + source[Len(source) - 2],
              source[Len(source) - 1] * 256 + source[Len(source)]>>
  THEN InflateFail(r, "MZ_DATA_ERROR")
  ELSE r

\* mz_uncompress(dest, &dest_len, source, source_len): the final state
mz_uncompress(dest_len, source) ==
  IF Len(source) < 6 THEN InflateFail(InflateInit(source, dest_len), "MZ_DATA_ERROR")
  ELSE IF source[1] % 16 # 8 \/ (source[1] * 256 + source[2]) % 31 # 0
          \/ (source[2] \div 32) % 2 = 1
  THEN InflateFail(InflateInit(source, dest_len), "MZ_DATA_ERROR")
  ELSE mz_uncompress_verify(
         inflate_raw_impl(dest_len, SubSeq(source, 3, Len(source) - 4)), source)

INFLATE_MAX_ALLOC == 16777216
INFLATE_MAX_ATTEMPTS == 10

\* The retry loop that mz_inflate_raw_alloc and mz_uncompress_alloc both
\* have, the latter (wrapped) calling mz_uncompress: [ok, out, frees]; ok =
\* FALSE is the NULL return, frees lists the buffers it released, each with
\* what it holds and whether it was zeroized
RECURSIVE inflate_alloc_loop(_, _, _, _, _)

inflate_alloc_try(r, wrapped, source, alloc_size, attempt, frees) ==
  IF r.status = "MZ_OK" THEN [ok |-> TRUE, out |-> r.out, frees |-> frees]
  ELSE IF r.status = "MZ_BUF_ERROR" /\ alloc_size * 2 <= INFLATE_MAX_ALLOC
  THEN inflate_alloc_loop(wrapped, source, alloc_size * 2, attempt + 1,
         Append(frees, [buf |-> "inflate_dest", holds |-> "inflate", zeroized |-> FALSE]))
  ELSE [ok |-> FALSE, out |-> <<>>,
        frees |-> Append(frees, [buf |-> "inflate_dest", holds |-> "inflate",
                                 zeroized |-> FALSE])]

inflate_alloc_loop(wrapped, source, alloc_size, attempt, frees) ==
  IF attempt >= INFLATE_MAX_ATTEMPTS THEN [ok |-> FALSE, out |-> <<>>, frees |-> frees]
  ELSE inflate_alloc_try(IF wrapped THEN mz_uncompress(alloc_size, source)
                         ELSE inflate_raw_impl(alloc_size, source),
                         wrapped, source, alloc_size, attempt, frees)

inflate_initial_alloc(source_len) ==
  IF source_len * 4 < 1024 THEN 1024 ELSE source_len * 4

mz_inflate_raw_alloc(source) ==
  inflate_alloc_loop(FALSE, source, inflate_initial_alloc(Len(source)), 0, <<>>)

mz_uncompress_alloc(source) ==
  IF Len(source) < 6 THEN [ok |-> FALSE, out |-> <<>>, frees |-> <<>>]
  ELSE inflate_alloc_loop(TRUE, source, inflate_initial_alloc(Len(source) - 6), 0, <<>>)

(***************************************************************************)
(* Specification of the deflate codec: compress an input, then inflate     *)
(* what the encoder produced.                                              *)
(***************************************************************************)
MaxDeflateLen == 5
DeflateLongLen == 300

\* 97 takes an 8-bit literal code, 200 a 9-bit one
DeflateAlphabet == {97, 200}

SeqsUpTo(S, n) == UNION {[1..k -> S] : k \in 0..n}

Periodic(p, n) == [i \in 1..n |-> p[((i - 1) % Len(p)) + 1]]

\* Every short input with every window size, and inputs longer than the
\* smallest window with the window size they overflow
DeflateInputs ==
  (SeqsUpTo(DeflateAlphabet, MaxDeflateLen) \X (8..15))
  \cup ({Periodic(p, DeflateLongLen) : p \in {<<97>>, <<97, 200>>, <<200, 97, 97>>}}
        \X {8})

DfIdle ==
  /\ df_phase = "idle"
  /\ df_src = <<>>
  /\ df_wbits = 0
  /\ df_comp = [ok |-> FALSE, out |-> <<>>]
  /\ df_res = [status |-> "none", out |-> <<>>]

\* What the caller of mz_deflate_raw_alloc_wbits gets: the buffer, or NULL
DeflateResult(r) ==
  [ok |-> r.ret = "MZ_OK", out |-> IF r.ret = "MZ_OK" THEN r.out ELSE <<>>]

\* What the caller of mz_inflate_raw_alloc gets
InflateResult(r) == [status |-> IF r.ok THEN "MZ_OK" ELSE "NULL", out |-> r.out]

\* mz_deflate_raw_alloc_wbits(source, source_len, &dest_len, wbits)
DfDeflate ==
  /\ df_phase = "idle"
  /\ \E in \in DeflateInputs :
       /\ df_src' = in[1]
       /\ df_wbits' = in[2]
       /\ df_comp' = DeflateResult(mz_deflate_raw_alloc_wbits(in[1], in[2]))
  /\ df_phase' = "deflated"
  /\ UNCHANGED <<df_res, df_others>>

\* mz_inflate_raw_alloc(compressed, compressed_len, &out_len)
DfInflate ==
  /\ df_phase = "deflated"
  /\ df_comp.ok
  /\ df_res' = InflateResult(mz_inflate_raw_alloc(df_comp.out))
  /\ df_phase' = "inflated"
  /\ UNCHANGED <<df_src, df_wbits, df_comp, df_others>>

DfReset ==
  /\ df_phase = "inflated"
  /\ df_phase' = "idle"
  /\ df_src' = <<>>
  /\ df_wbits' = 0
  /\ df_comp' = [ok |-> FALSE, out |-> <<>>]
  /\ df_res' = [status |-> "none", out |-> <<>>]
  /\ UNCHANGED df_others

\* C10: for every byte string B, the empty and the incompressible ones
\* included, and every wbits in 8..15, raw-inflating what the deflate encoder
\* produced for B succeeds and yields exactly B.
C10_InflateOfDeflate ==
  df_phase = "inflated" =>
    /\ df_wbits \in 8..15
    /\ df_res.status = "MZ_OK"
    /\ df_res.out = df_src

\* C10 witness: an input longer than the 256-byte window of wbits = 8 was
\* compressed with back-references to fewer bytes and inflated back
C10_Witness ==
  /\ df_phase = "inflated"
  /\ df_wbits = 8
  /\ Len(df_src) > 2 ^ df_wbits
  /\ Len(df_comp.out) < Len(df_src)
  /\ \E i \in 1..Len(df_src) : df_src[i] # df_src[1]
  /\ df_res.out = df_src

(***************************************************************************)
(* Specification of the allocating inflate: mz_inflate_raw_alloc and       *)
(* mz_uncompress_alloc, one step per iteration of their loop, with every   *)
(* size handed to malloc and every status of the inflater recorded.        *)
(*                                                                         *)
(* A source is either real (its bytes are inflated by inflate_raw_impl or  *)
(* mz_uncompress) or sized: too long to enumerate, it is described by its  *)
(* length, the number of bytes `good` the inflater writes before the       *)
(* stream ends or goes wrong, and whether it ends well.                    *)
(***************************************************************************)
AllocLongLen == 1100
AllocBigLen == 4194304

\* A zlib stream around raw: the header 78 9C, raw, Adler-32 of data
AllocZlib(raw, data) ==
  LET a == adler32(data, Len(data))
  IN <<120, 156>> \o raw
     \o <<Shr(a[1], 8), a[1] % 256, Shr(a[2], 8), a[2] % 256>>

\* A deflate stream for AllocLongLen equal bytes as the encoder writes it:
\* a literal and a match of distance 1 for the rest
AllocLongStream ==
  finish_block(out_match(out_literal(start_block(CompressInit(64, 256)), 97),
                         1, AllocLongLen - 1)).out

\* The sized sources leave out what no deflate stream does: expand by more
\* than 1032 (a 258-byte match in two bits)
AllocSources ==
  {[sized |-> FALSE, wrapped |-> FALSE, bytes |-> b, len |-> Len(b), good |-> 0,
    ends_ok |-> FALSE] :
     b \in {mz_deflate_raw_alloc(p).out : p \in {<<>>, <<97>>}}
           \cup {AllocLongStream, <<>>, <<255>>}}
  \cup
  {[sized |-> FALSE, wrapped |-> TRUE, bytes |-> b, len |-> Len(b), good |-> 0,
    ends_ok |-> FALSE] :
     b \in {AllocZlib(mz_deflate_raw_alloc(p).out, p) : p \in {<<>>, <<97>>}}
           \cup {<<120, 156, 3>>, <<120, 156, 3, 0, 0, 0, 0, 2>>}}
  \cup
  UNION {{[sized |-> TRUE, wrapped |-> w, bytes |-> <<>>, len |-> n, good |-> g,
            ends_ok |-> e] :
             w \in BOOLEAN, e \in BOOLEAN,
             g \in {k \in {0, 16 * n + 1, 64 * n, INFLATE_MAX_ALLOC + 1} :
                      k \div 1032 <= n - 6}} :
           n \in {300, 16384, 20000, AllocBigLen, AllocBigLen + 1}}

\* The status of inflating src into dest_len bytes: inflate_raw_impl, or
\* mz_uncompress for the wrapped call.  A sized source overflows the output
\* when it has more good bytes than fit, and otherwise ends well or not.
AllocStatus(src, dest_len) ==
  IF src.sized
  THEN IF src.good > dest_len THEN "MZ_BUF_ERROR"
       ELSE IF src.ends_ok THEN "MZ_OK" ELSE "MZ_DATA_ERROR"
  ELSE IF src.wrapped THEN mz_uncompress(dest_len, src.bytes).status
  ELSE inflate_raw_impl(dest_len, src.bytes).status

AlIdle ==
  al = [pc |-> "idle", src |-> [sized |-> FALSE, wrapped |-> FALSE, bytes |-> <<>>,
                                len |-> 0, good |-> 0, ends_ok |-> FALSE],
        alloc_size |-> 0, attempt |-> 0, requests |-> <<>>, statuses |-> <<>>,
        ret |-> "none"]

\* Entry of mz_inflate_raw_alloc / mz_uncompress_alloc, up to the loop
AlCall ==
  /\ al.pc = "idle"
  /\ \E s \in AllocSources :
       al' = IF s.wrapped /\ s.len < 6
             THEN [al EXCEPT !.pc = "returned", !.src = s, !.ret = "NULL"]
             ELSE [al EXCEPT !.pc = "loop", !.src = s,
                     !.alloc_size = inflate_initial_alloc(
                                      IF s.wrapped THEN s.len - 6 ELSE s.len)]
  /\ UNCHANGED al_others

\* One iteration of the loop, dest being what malloc returned, or the exit
\* of the loop after INFLATE_MAX_ATTEMPTS iterations
AlAttempt ==
  /\ al.pc = "loop"
  /\ \E dest \in {"buffer", "NULL"}, status \in {AllocStatus(al.src, al.alloc_size)} :
       al' = IF al.attempt >= INFLATE_MAX_ATTEMPTS
             THEN [al EXCEPT !.pc = "returned", !.ret = "NULL"]
             ELSE IF dest = "NULL"
             THEN [al EXCEPT !.pc = "returned", !.ret = "NULL",
                     !.requests = Append(@, al.alloc_size)]
             ELSE IF status = "MZ_OK"
             THEN [al EXCEPT !.pc = "returned", !.ret = "dest",
                     !.requests = Append(@, al.alloc_size),
                     !.statuses = Append(@, status)]
             ELSE IF status = "MZ_BUF_ERROR"
             THEN [al EXCEPT !.pc = IF al.alloc_size * 2 > INFLATE_MAX_ALLOC
                                    THEN "returned" ELSE "loop",
                     !.ret = IF al.alloc_size * 2 > INFLATE_MAX_ALLOC
                             THEN "NULL" ELSE "none",
                     !.alloc_size = @ * 2,
                     !.attempt = @ + 1,
                     !.requests = Append(@, al.alloc_size),
                     !.statuses = Append(@, status)]
             ELSE [al EXCEPT !.pc = "returned", !.ret = "NULL",
                     !.requests = Append(@, al.alloc_size),
                     !.statuses = Append(@, status)]
  /\ UNCHANGED al_others

AlReset ==
  /\ al.pc = "returned"
  /\ al' = [pc |-> "idle", src |-> [sized |-> FALSE, wrapped |-> FALSE,
                                    bytes |-> <<>>, len |-> 0, good |-> 0,
                                    ends_ok |-> FALSE],
            alloc_size |-> 0, attempt |-> 0, requests |-> <<>>, statuses |-> <<>>,
            ret |-> "none"]
  /\ UNCHANGED al_others

\* C11: the allocating inflate first asks for max(4 * input_len, 1024) bytes
\* (input_len being the length of the deflate data, the zlib header and
\* trailer not counted), asks again only after MZ_BUF_ERROR and then for twice
\* as much, never asks for more than 16 MiB, and returns NULL at once on any
\* other error.
C11_AllocPolicy ==
  LET n == IF al.src.wrapped THEN al.src.len - 6 ELSE al.src.len
  IN /\ Len(al.requests) >= 1 =>
          al.requests[1] = (IF 4 * n > 1024 THEN 4 * n ELSE 1024)
     /\ \A i \in 2..Len(al.requests) :
          /\ al.requests[i] = 2 * al.requests[i - 1]
          /\ al.statuses[i - 1] = "MZ_BUF_ERROR"
     /\ \A i \in 1..Len(al.requests) : al.requests[i] <= 16 * 1024 * 1024
     /\ \A i \in 1..Len(al.statuses) :
          al.statuses[i] \notin {"MZ_OK", "MZ_BUF_ERROR"} =>
            /\ i = Len(al.requests)
            /\ al.pc = "returned"
            /\ al.ret = "NULL"

(***************************************************************************)
(* Specification of the inflater on its own: inflate_raw_impl on a source  *)
(* and an output capacity of the caller's choice.  The sources are         *)
(*   "bytes"   arbitrary bytes: every short string over a few byte values  *)
(*             (block headers of each type among them) and longer strings  *)
(*             that start a fixed or a dynamic block;                      *)
(*   "tokens"  a fixed-Huffman block holding a given list of literals and  *)
(*             matches, written bit by bit with the encoder's out_literal  *)
(*             and out_match, matches that reach before the start of the   *)
(*             output included;                                            *)
(*   "stored"  a stored block of a given length;                           *)
(*   "dynamic" a dynamic-Huffman block of zlib's for a known plain text,   *)
(*             one of them compressed against a preset dictionary, so that *)
(*             its matches reach before the start of the output.           *)
(***************************************************************************)
MaxInfBytes == 3
MaxInfTokens == 3
MaxInfCap == 7

\* A literal is [lit |-> TRUE, c], a match [lit |-> FALSE, dist, len]
InfLit(c) == [lit |-> TRUE, c |-> c, dist |-> 0, len |-> 0]
InfMatch(dist, len) == [lit |-> FALSE, c |-> 0, dist |-> dist, len |-> len]

InfTokenSet ==
  {InfLit(97), InfLit(200), InfMatch(1, 3), InfMatch(2, 3), InfMatch(2, 4),
   InfMatch(4, 3), InfMatch(1, 258)}

\* The block for the tokens toks[i..]
RECURSIVE InfWriteTokens(_, _, _)
InfWriteTokens(s, toks, i) ==
  IF i > Len(toks) THEN s
  ELSE InfWriteTokens(IF toks[i].lit THEN out_literal(s, toks[i].c)
                      ELSE out_match(s, toks[i].dist, toks[i].len),
                      toks, i + 1)

InfTokenStream(toks) ==
  finish_block(InfWriteTokens(start_block(CompressInit(64, 256)), toks, 1)).out

\* What the tokens toks[i..] mean for an output of capacity cap that holds
\* out so far: a literal needs one free byte, a match a distance within the
\* bytes produced and then len free bytes
RECURSIVE InfMeaning(_, _, _, _)
InfMeaning(toks, i, cap, out) ==
  IF i > Len(toks) THEN [status |-> "MZ_OK", out |-> out]
  ELSE IF toks[i].lit
  THEN IF Len(out) >= cap THEN [status |-> "MZ_BUF_ERROR", out |-> out]
       ELSE InfMeaning(toks, i + 1, cap, Append(out, toks[i].c))
  ELSE IF toks[i].dist > Len(out) THEN [status |-> "MZ_DATA_ERROR", out |-> out]
  ELSE IF Len(out) + toks[i].len > cap THEN [status |-> "MZ_BUF_ERROR", out |-> out]
  ELSE InfMeaning(toks, i + 1, cap,
                  out \o [k \in 1..toks[i].len |->
                            out[Len(out) - toks[i].dist + ((k - 1) % toks[i].dist) + 1]])

\* A final stored block of n bytes; bad flips a bit of NLEN
InfStored(n, bad) ==
  <<1, n, 0, (255 - n + (IF bad THEN 1 ELSE 0)) % 256, 255>> \o [k \in 1..n |-> 97 + k]

\* Dynamic blocks: src is the block, plain the text it was made from and
\* dict whether it was made with a preset dictionary
InfDynamic ==
  {[src |-> <<5, 193, 129, 0, 0, 0, 0, 0, 144, 86, 255, 19, 0, 0, 32>>,
    plain |-> Rep(97, 18), dict |-> FALSE],
   [src |-> <<5, 193, 1, 1, 0, 0, 0, 128, 144, 173, 250, 63, 34, 16, 33, 50>>,
    plain |-> <<97, 97, 97, 98, 97, 97, 98, 97, 97, 97, 98, 97, 97, 98, 97>>,
    dict |-> FALSE],
   [src |-> <<13, 193, 1, 1, 0, 0, 0, 130, 160, 173, 248, 127, 68, 193, 161, 80, 9, 3>>,
    plain |-> <<98, 98, 98, 97, 97, 97, 98, 98, 97, 97, 97, 98, 98, 98, 97, 98, 97, 97, 97>>,
    dict |-> TRUE]}

InfPatterns ==
  {<<0>>, <<255>>, <<75, 28, 5, 163>>, <<1, 2, 4, 8, 16, 32, 64, 128>>,
   <<237, 189, 7, 96, 28, 73>>}

InfSources ==
  {[kind |-> "bytes", toks |-> <<>>, n |-> 0, src |-> b] :
     b \in SeqsUpTo({0, 1, 3, 5, 75, 255}, MaxInfBytes)
           \cup {<<h>> \o Periodic(p, n) :
                   h \in {3, 7}, n \in {8, 20, 60}, p \in InfPatterns}
           \cup {<<h>> \o Periodic(p, 8) : h \in {5, 4}, p \in InfPatterns}}
  \cup
  {[kind |-> "dynamic", toks |-> <<>>, n |-> Len(d.plain), src |-> d.src] :
     d \in InfDynamic}
  \cup
  {[kind |-> "tokens", toks |-> t, n |-> 0, src |-> InfTokenStream(t)] :
     t \in SeqsUpTo(InfTokenSet, MaxInfTokens)}
  \cup
  {[kind |-> "stored", toks |-> <<>>, n |-> n, src |-> InfStored(n, FALSE)] :
     n \in 0..3}
  \cup
  {[kind |-> "bytes", toks |-> <<>>, n |-> 0, src |-> b] :
     b \in {InfStored(2, TRUE), SubSeq(InfStored(3, FALSE), 1, 7)}}

InfCaps == (0..MaxInfCap) \cup {14, 15, 17, 18, 19, 258, 259, 260, 4096}

InfIdle ==
  inf = [phase |-> "idle", kind |-> "bytes", toks |-> <<>>, n |-> 0, src |-> <<>>,
         cap |-> 0, status |-> "none", out |-> <<>>]

\* A call of inflate_raw_impl(dest, &dest_len, source, source_len): out is
\* what it has written to dest when it returns
InfCall ==
  /\ inf.phase = "idle"
  /\ \E s \in InfSources, cap \in InfCaps :
       \E r \in {inflate_raw_impl(cap, s.src)} :
         inf' = [phase |-> "returned", kind |-> s.kind, toks |-> s.toks, n |-> s.n,
                 src |-> s.src, cap |-> cap, status |-> r.status, out |-> r.out]
  /\ UNCHANGED inf_others

InfReset ==
  /\ inf.phase = "returned"
  /\ inf' = [phase |-> "idle", kind |-> "bytes", toks |-> <<>>, n |-> 0,
             src |-> <<>>, cap |-> 0, status |-> "none", out |-> <<>>]
  /\ UNCHANGED inf_others

\* C27: on any input bytes and any output capacity inflate writes no byte
\* beyond the capacity and copies no back-reference from before the start of
\* the output: it returns MZ_BUF_ERROR where the output does not fit and
\* MZ_DATA_ERROR for a distance larger than the bytes produced so far.  For a
\* block of known tokens the status and the output are those of the tokens'
\* meaning; for a stored block of n bytes the status is MZ_BUF_ERROR exactly
\* when n exceeds the capacity; a dynamic block gives its plain text back
\* when that fits, MZ_BUF_ERROR when it does not, and never MZ_OK when its
\* matches reach into a preset dictionary.
C27_InflateBounds ==
  inf.phase = "returned" =>
    /\ Len(inf.out) <= inf.cap
    /\ inf.status \in {"MZ_OK", "MZ_DATA_ERROR", "MZ_BUF_ERROR"}
    /\ inf.kind = "tokens" =>
         /\ inf.status = InfMeaning(inf.toks, 1, inf.cap, <<>>).status
         /\ inf.status = "MZ_OK" =>
              inf.out = InfMeaning(inf.toks, 1, inf.cap, <<>>).out
    /\ inf.kind = "stored" =>
         /\ inf.status = (IF inf.n > inf.cap THEN "MZ_BUF_ERROR" ELSE "MZ_OK")
         /\ inf.status = "MZ_OK" => inf.out = [k \in 1..inf.n |-> 97 + k]
    /\ inf.kind = "dynamic" =>
         \A d \in InfDynamic :
           d.src = inf.src =>
             /\ d.dict => inf.status # "MZ_OK"
             /\ (d.dict /\ inf.cap >= inf.n) => inf.status = "MZ_DATA_ERROR"
             /\ ~d.dict =>
                   /\ inf.status = (IF inf.n > inf.cap THEN "MZ_BUF_ERROR" ELSE "MZ_OK")
                   /\ inf.status = "MZ_OK" => inf.out = d.plain

\* A match of distance 2 after one literal was refused with MZ_DATA_ERROR
\* although the capacity was too small for it as well
C27_Witness ==
  /\ inf.phase = "returned"
  /\ inf.kind = "tokens"
  /\ inf.toks = <<InfLit(97), InfMatch(2, 4)>>
  /\ inf.cap = 3
  /\ inf.status = "MZ_DATA_ERROR"
  /\ inf.out = <<97>>


(***************************************************************************)
(* Specification of the encoder step by step: mz_deflate_raw_wbits sets up *)
(* the window and starts the block, every turn of the while loop of        *)
(* lz77_compress emits one literal or one match and pushes the bytes it    *)
(* covered into the history, and finish_block ends the block.              *)
(***************************************************************************)
MaxLzLen == 4
LzLongLen == 300
LzHugeLen == 1100

\* The window mz_deflate_raw_wbits allocates for the wbits it is given
LzWindow(wbits) == 2 ^ (IF wbits < 8 \/ wbits > 15 THEN MZ_DEFAULT_WBITS ELSE wbits)

\* Short inputs with window sizes in and out of range, and inputs longer than
\* the smallest window (periodic ones and one without repeats) and than the
\* default window
LzInputs ==
  (SeqsUpTo(DeflateAlphabet, MaxLzLen) \X {4, 8, 10, 15, 16})
  \cup (({Periodic(p, LzLongLen) :
            p \in {<<97>>, <<97, 200>>, <<200, 97, 97>>,
                   <<1, 2, 3, 4, 5, 6, 7, 1, 2, 3, 9, 8, 7, 6, 5, 4, 3>>}}
         \cup {[i \in 1..LzLongLen |-> (17 * (i - 1) + ((i - 1) \div 128)) % 256]})
        \X {8})
  \cup ({Periodic(<<200, 97, 97>>, LzHugeLen)} \X {4})

LzNoToken == [kind |-> "none", pos |-> 0, hist_len |-> 0, len |-> 0, offset |-> 0]

LzIdle ==
  lz = [pc |-> "idle", src |-> <<>>, wbits |-> 0, pos |-> 0,
        s |-> CompressInit(0, 1), tok |-> LzNoToken]

\* mz_deflate_raw_wbits up to the call of lz77_compress; dest is as large as
\* mz_deflate_raw_alloc_wbits makes it, or two bytes
LzStart ==
  /\ lz.pc = "idle"
  /\ \E in \in LzInputs :
       \E dest_len \in {2, deflate_alloc_size(Len(in[1]))} :
       lz' = [pc |-> "loop", src |-> in[1], wbits |-> in[2], pos |-> 0,
              s |-> start_block(CompressInit(dest_len, LzWindow(in[2]))),
              tok |-> LzNoToken]
  /\ UNCHANGED lz_others

\* One turn of the while (src < end) loop of lz77_compress; tok is what it
\* emitted: the position, the history length at that moment, and for a match
\* its length and offset
LzStep ==
  /\ lz.pc = "loop"
  /\ lz.s.ret = "MZ_OK"
  /\ lz.pos < Len(lz.src)
  /\ LET m == lz77_find_match(lz.s, lz.src, lz.pos)
         n == IF m.len = 0 THEN 1 ELSE m.len
         s1 == IF m.len = 0 THEN out_literal(lz.s, lz.src[lz.pos + 1])
               ELSE out_match(lz.s, m.offset, m.len)
     IN lz' = [lz EXCEPT
                 !.tok = [kind |-> IF m.len = 0 THEN "literal" ELSE "match",
                          pos |-> lz.pos, hist_len |-> lz.s.hist_len,
                          len |-> m.len, offset |-> m.offset],
                 !.s = IF s1.ret # "MZ_OK" THEN s1
                       ELSE hist_push(s1, lz.src, lz.pos, n),
                 !.pos = IF s1.ret # "MZ_OK" THEN @ ELSE @ + n,
                 !.pc = IF s1.ret # "MZ_OK" THEN "done" ELSE "loop"]
  /\ UNCHANGED lz_others

\* The end of the loop: finish_block, free(hist_buf) and the return
LzFinish ==
  /\ lz.pc = "loop"
  /\ lz.s.ret = "MZ_OK"
  /\ lz.pos >= Len(lz.src)
  /\ lz' = [lz EXCEPT !.s = finish_block(@), !.pc = "done"]
  /\ UNCHANGED lz_others

LzReset ==
  /\ lz.pc = "done"
  /\ lz' = [pc |-> "idle", src |-> <<>>, wbits |-> 0, pos |-> 0,
            s |-> CompressInit(0, 1), tok |-> LzNoToken]
  /\ UNCHANGED lz_others

\* C30: at every step of the encoding hist_len never exceeds the window of
\* 2^wbits bytes (2^10 for a wbits outside 8..15), and every emitted match
\* has a length in [3, 258] and a distance in [1, hist_len] with hist_len at
\* most the number of input bytes consumed, so that it reaches neither
\* beyond the window nor before the start of the input; the bytes it stands
\* for are the bytes at that distance.
C30_EncoderWindow ==
  lz.pc # "idle" =>
    /\ lz.s.hist_max = LzWindow(lz.wbits)
    /\ lz.wbits \in 8..15 => lz.s.hist_max = 2 ^ lz.wbits
    /\ lz.s.hist_len <= lz.s.hist_max
    /\ lz.s.hist_len <= lz.pos
    /\ lz.tok.kind = "match" =>
         /\ lz.tok.len \in MATCH_LEN_MIN..MATCH_LEN_MAX
         /\ lz.tok.offset \in 1..lz.tok.hist_len
         /\ lz.tok.hist_len <= lz.s.hist_max
         /\ lz.tok.offset <= lz.tok.pos
         /\ \A k \in 1..lz.tok.len :
              lz.src[lz.tok.pos + k] = lz.src[lz.tok.pos + k - lz.tok.offset]

\* C30 witness: with the window of 256 bytes full and wrapped, a match of
\* distance 3 was emitted
C30_Witness ==
  /\ lz.pc = "loop"
  /\ lz.wbits = 8
  /\ lz.tok.kind = "match"
  /\ lz.tok.hist_len = 256
  /\ lz.tok.offset = 3
  /\ lz.s.hist_len = 256
  /\ lz.s.hist_start # 0
(***************************************************************************)
(* base32.c: RFC 4648 Base32.  Strings are sequences of ASCII codes.       *)
(***************************************************************************)
\* "ABCDEFGHIJKLMNOPQRSTUVWXYZ234567"
BASE32_ALPHABET == [i \in 1..32 |-> IF i <= 26 THEN 64 + i ELSE 23 + i]

\* A variant of BASE32_DECODE_TABLE whose lower-case letters start at 1
BASE32_DECODE_TABLE_lower_from_one(c) ==
  IF c >= 50 /\ c <= 55 THEN c - 24
  ELSE IF c >= 65 /\ c <= 90 THEN c - 65
  ELSE IF c >= 97 /\ c <= 122 THEN (c - 96) % 32
  ELSE -1

\* BASE32_DECODE_TABLE[c] for c < 128
BASE32_DECODE_TABLE(c) ==
  IF c >= 50 /\ c <= 55 THEN c - 24
  ELSE IF c >= 65 /\ c <= 90 THEN c - 65
  ELSE IF c >= 97 /\ c <= 122 THEN c - 97
  ELSE -1

base32_encoded_len(input_len) == ((input_len + 4) \div 5) * 8

base32_decoded_len(input_len) == (input_len * 5) \div 8

\* A variant of base32_group that writes six characters for four bytes
base32_group_six_for_four(input, in_idx) ==
  LET bytes_in_group == Min2(5, Len(input) - in_idx)
      byte(k) == IF k < bytes_in_group THEN input[in_idx + k + 1] ELSE 0
      bit(p) == (byte(p \div 8) \div (2 ^ (7 - (p % 8)))) % 2
      idx(i) == 16 * bit(5 * i) + 8 * bit(5 * i + 1) + 4 * bit(5 * i + 2)
                + 2 * bit(5 * i + 3) + bit(5 * i + 4)
      num_chars == <<0, 2, 4, 5, 6, 8>>[bytes_in_group + 1]
  IN [i \in 1..8 |-> IF i - 1 < num_chars THEN BASE32_ALPHABET[idx(i - 1) + 1]
                     ELSE 61]

\* The eight characters of the group that starts at input[in_idx].  The
\* 40-bit buffer holds the group's bytes left-aligned; bit p of it, counted
\* from the top, is bit 7 - p % 8 of byte p / 8.
base32_group(input, in_idx) ==
  LET bytes_in_group == Min2(5, Len(input) - in_idx)
      byte(k) == IF k < bytes_in_group THEN input[in_idx + k + 1] ELSE 0
      bit(p) == (byte(p \div 8) \div (2 ^ (7 - (p % 8)))) % 2
      idx(i) == 16 * bit(5 * i) + 8 * bit(5 * i + 1) + 4 * bit(5 * i + 2)
                + 2 * bit(5 * i + 3) + bit(5 * i + 4)
      num_chars == <<0, 2, 4, 5, 7, 8>>[bytes_in_group + 1]
  IN [i \in 1..8 |-> IF i - 1 < num_chars THEN BASE32_ALPHABET[idx(i - 1) + 1]
                     ELSE 61]

RECURSIVE base32_encode_from(_, _)
base32_encode_from(input, in_idx) ==
  IF in_idx >= Len(input) THEN <<>>
  ELSE base32_group(input, in_idx) \o base32_encode_from(input, in_idx + 5)

\* base32_encode: the characters written; none when it returns 0
base32_encode(input, output_size) ==
  IF Len(input) = 0 \/ output_size < base32_encoded_len(Len(input)) + 1 THEN <<>>
  ELSE base32_encode_from(input, 0)

\* input_len after the trailing '=' are skipped
RECURSIVE base32_unpadded_len(_, _)
base32_unpadded_len(input, input_len) ==
  IF input_len > 0 /\ input[input_len] = 61
  THEN base32_unpadded_len(input, input_len - 1)
  ELSE input_len

\* The for loop of base32_decode from character i on; st = [ok, out, buffer,
\* bits_in_buffer].  At most 7 + 5 bits are buffered, so the inner while
\* loop runs at most once and the uint32_t buffer never wraps.
RECURSIVE base32_decode_from(_, _, _, _)
base32_decode_from(input, input_len, i, st) ==
  IF ~st.ok \/ i >= input_len THEN st
  ELSE LET c == input[i + 1]
           bits == st.bits_in_buffer + 5
           buffer == st.buffer * 32 + BASE32_DECODE_TABLE(c)
       IN IF c \in {32, 9, 10, 11, 12, 13}
          THEN base32_decode_from(input, input_len, i + 1, st)
          ELSE IF c >= 128 \/ BASE32_DECODE_TABLE(c) < 0
          THEN [st EXCEPT !.ok = FALSE]
          ELSE IF bits >= 8
          THEN base32_decode_from(input, input_len, i + 1,
                 [st EXCEPT !.out = Append(@, (buffer \div (2 ^ (bits - 8))) % 256),
                            !.buffer = buffer % (2 ^ (bits - 8)),
                            !.bits_in_buffer = bits - 8])
          ELSE base32_decode_from(input, input_len, i + 1,
                 [st EXCEPT !.buffer = buffer, !.bits_in_buffer = bits])

\* base32_decode: the loop state it ends in; ok is what it returns and out
\* is output[0 .. *out_len - 1]
base32_decode(input, output_size) ==
  LET input_len == base32_unpadded_len(input, Len(input))
      start == [ok |-> TRUE, out |-> <<>>, buffer |-> 0, bits_in_buffer |-> 0]
  IN IF Len(input) = 0 THEN [start EXCEPT !.ok = FALSE]
     ELSE IF input_len = 0 THEN start
     ELSE IF output_size < (input_len * 5) \div 8 THEN [start EXCEPT !.ok = FALSE]
     ELSE base32_decode_from(input, input_len, 0, start)

(***************************************************************************)
(* bbqr.c: the BBQr transport.                                             *)
(***************************************************************************)
BBQR_HEADER_LEN == 8

\* toupper in the C locale
toupper(c) == IF c >= 97 /\ c <= 122 THEN c - 32 ELSE c

\* 'H', '2', 'Z'
bbqr_is_valid_encoding(c) == c \in {72, 50, 90}

\* 'P', 'T', 'J', 'U'
bbqr_is_valid_file_type(c) == c \in {80, 84, 74, 85}

bbqr_base36_decode(c1, c2) ==
  LET v(c) == IF toupper(c) >= 48 /\ toupper(c) <= 57 THEN toupper(c) - 48
              ELSE IF toupper(c) >= 65 /\ toupper(c) <= 90 THEN toupper(c) - 65 + 10
              ELSE -1
  IN IF v(c1) < 0 \/ v(c2) < 0 THEN -1 ELSE v(c1) * 36 + v(c2)

\* bbqr_base36_encode: <<c1, c2>>, nothing when it returns false
bbqr_base36_encode(value) ==
  LET BASE36_ALPHABET(d) == IF d < 10 THEN 48 + d ELSE 65 + d - 10
  IN IF value < 0 \/ value > 1295 THEN <<>>
     ELSE <<BASE36_ALPHABET(value \div 36), BASE36_ALPHABET(value % 36)>>

\* A variant of bbqr_parse_part that takes an index equal to the total
bbqr_parse_part_index_le_total(data) ==
  LET bad == [ok |-> FALSE, encoding |-> 0, file_type |-> 0, total |-> 0,
              index |-> 0, payload |-> <<>>]
  IN IF Len(data) < BBQR_HEADER_LEN THEN bad
     ELSE IF data[1] # 66 \/ data[2] # 36 THEN bad
     ELSE IF ~bbqr_is_valid_encoding(toupper(data[3])) THEN bad
     ELSE IF ~bbqr_is_valid_file_type(toupper(data[4])) THEN bad
     ELSE IF bbqr_base36_decode(data[5], data[6]) < 1
             \/ bbqr_base36_decode(data[5], data[6]) > 1295 THEN bad
     ELSE IF bbqr_base36_decode(data[7], data[8]) < 0
             \/ bbqr_base36_decode(data[7], data[8])
                  > bbqr_base36_decode(data[5], data[6]) THEN bad
     ELSE [ok |-> TRUE, encoding |-> toupper(data[3]), file_type |-> toupper(data[4]),
           total |-> bbqr_base36_decode(data[5], data[6]),
           index |-> bbqr_base36_decode(data[7], data[8]),
           payload |-> SubSeq(data, BBQR_HEADER_LEN + 1, Len(data))]

\* bbqr_parse_part: ok is what it returns, the other fields are the BBQrPart
bbqr_parse_part(data) ==
  LET bad == [ok |-> FALSE, encoding |-> 0, file_type |-> 0, total |-> 0,
              index |-> 0, payload |-> <<>>]
  IN IF Len(data) < BBQR_HEADER_LEN THEN bad
     ELSE IF data[1] # 66 \/ data[2] # 36 THEN bad
     ELSE IF ~bbqr_is_valid_encoding(toupper(data[3])) THEN bad
     ELSE IF ~bbqr_is_valid_file_type(toupper(data[4])) THEN bad
     ELSE IF bbqr_base36_decode(data[5], data[6]) < 1
             \/ bbqr_base36_decode(data[5], data[6]) > 1295 THEN bad
     ELSE IF bbqr_base36_decode(data[7], data[8]) < 0
             \/ bbqr_base36_decode(data[7], data[8])
                  >= bbqr_base36_decode(data[5], data[6]) THEN bad
     ELSE [ok |-> TRUE, encoding |-> toupper(data[3]), file_type |-> toupper(data[4]),
           total |-> bbqr_base36_decode(data[5], data[6]),
           index |-> bbqr_base36_decode(data[7], data[8]),
           payload |-> SubSeq(data, BBQR_HEADER_LEN + 1, Len(data))]

\* decode_hex: [ok, out]; ok = FALSE is the NULL return
decode_hex(hex) ==
  LET v(c) == IF c >= 48 /\ c <= 57 THEN c - 48
              ELSE IF c >= 65 /\ c <= 70 THEN c - 65 + 10
              ELSE IF c >= 97 /\ c <= 102 THEN c - 97 + 10
              ELSE -1
  IN IF Len(hex) % 2 # 0 \/ \E i \in 1..Len(hex) : v(hex[i]) < 0
     THEN [ok |-> FALSE, out |-> <<>>]
     ELSE [ok |-> TRUE,
           out |-> [i \in 1..(Len(hex) \div 2) |->
                      v(hex[2 * i - 1]) * 16 + v(hex[2 * i])]]

\* A variant of the 'Z' branch without the raw inflate fallback
bbqr_decompress_wrapped(wrapped, compressed) == wrapped

\* The 'Z' branch of bbqr_decode_payload once the text is Base32-decoded:
\* zlib-wrapped inflate when the first two bytes look like a zlib header,
\* raw inflate when that was not tried or failed
bbqr_decompress_raw(wrapped, compressed) ==
  IF wrapped.ok THEN wrapped ELSE mz_inflate_raw_alloc(compressed)

bbqr_decompress(c) ==
  IF ~c.ok THEN [ok |-> FALSE, out |-> <<>>]
  ELSE bbqr_decompress_raw(
         IF Len(c.out) >= 2 /\ c.out[1] % 16 = 8
            /\ (c.out[1] * 256 + c.out[2]) % 31 = 0
         THEN mz_uncompress_alloc(c.out)
         ELSE [ok |-> FALSE, out |-> <<>>, frees |-> <<>>],
         c.out)

\* bbqr_decode_payload: a record with ok and out; ok = FALSE is the NULL return
bbqr_decode_payload(encoding, data) ==
  IF Len(data) = 0 THEN [ok |-> FALSE, out |-> <<>>]
  ELSE IF toupper(encoding) = 72 THEN decode_hex(data)
  ELSE IF toupper(encoding) = 50
  THEN base32_decode(data, base32_decoded_len(Len(data)))
  ELSE IF toupper(encoding) = 90
  THEN bbqr_decompress(base32_decode(data, base32_decoded_len(Len(data))))
  ELSE [ok |-> FALSE, out |-> <<>>]

\* The encoding bbqr_encode settles on and the Base32 text it splits:
\* 'Z' when deflate succeeded and made the data shorter, '2' otherwise
bbqr_encoded(data, compressed) ==
  IF compressed.ret = "MZ_OK" /\ Len(compressed.out) < Len(data)
     /\ Len(compressed.out) > 0
  THEN [encoding |-> 90,
        text |-> base32_encode(compressed.out,
                               base32_encoded_len(Len(compressed.out)) + 1)]
  ELSE [encoding |-> 50,
        text |-> base32_encode(data, base32_encoded_len(Len(data)) + 1)]

\* A variant that rounds the payload size up to a multiple of 8
payload_per_part_ceil(max_payload_per_part) ==
  ((max_payload_per_part + 7) \div 8) * 8

\* payload_per_part as first computed: the largest multiple of 8 that fits
payload_per_part_fit(max_payload_per_part) ==
  IF (max_payload_per_part \div 8) * 8 <= 0 THEN 8
  ELSE (max_payload_per_part \div 8) * 8

\* A variant of bbqr_split without the limit of 1295 parts
bbqr_split_no_limit(e, file_type, max_chars_per_qr) ==
  LET encoded_len == Len(e.text)
      first_payload == payload_per_part_fit(max_chars_per_qr - BBQR_HEADER_LEN)
      needed == (encoded_len + first_payload - 1) \div first_payload
      num_parts == IF needed < 1 THEN 1 ELSE needed
      payload_per_part == ((((encoded_len + num_parts - 1) \div num_parts) + 7) \div 8) * 8
      offset(i) == Min2(i * payload_per_part, encoded_len)
  IN IF encoded_len = 0 THEN [ok |-> FALSE, parts |-> <<>>]
     ELSE [ok |-> TRUE,
           parts |-> [i \in 1..num_parts |->
                        <<66, 36, e.encoding, file_type>>
                        \o bbqr_base36_encode(num_parts) \o bbqr_base36_encode(i - 1)
                        \o SubSeq(e.text, offset(i - 1) + 1, offset(i))]]

\* The part strings of bbqr_encode: [ok, parts]
bbqr_split(e, file_type, max_chars_per_qr) ==
  LET encoded_len == Len(e.text)
      first_payload == payload_per_part_fit(max_chars_per_qr - BBQR_HEADER_LEN)
      needed == (encoded_len + first_payload - 1) \div first_payload
      num_parts == IF needed < 1 THEN 1 ELSE needed
      payload_per_part == ((((encoded_len + num_parts - 1) \div num_parts) + 7) \div 8) * 8
      offset(i) == Min2(i * payload_per_part, encoded_len)
  IN IF encoded_len = 0 \/ needed > 1295 THEN [ok |-> FALSE, parts |-> <<>>]
     ELSE [ok |-> TRUE,
           parts |-> [i \in 1..num_parts |->
                        <<66, 36, e.encoding, file_type>>
                        \o bbqr_base36_encode(num_parts) \o bbqr_base36_encode(i - 1)
                        \o SubSeq(e.text, offset(i - 1) + 1, offset(i))]]

\* bbqr_encode: [ok, parts]; ok = FALSE is the NULL return
bbqr_encode(data, file_type, max_chars_per_qr) ==
  IF Len(data) = 0 \/ ~bbqr_is_valid_file_type(file_type)
     \/ max_chars_per_qr < BBQR_HEADER_LEN + 8
  THEN [ok |-> FALSE, parts |-> <<>>]
  ELSE bbqr_split(bbqr_encoded(data, mz_deflate_raw_alloc(data)), file_type,
                  max_chars_per_qr)

(***************************************************************************)
(* Specification of the BBQr transport: encode data into parts, parse and  *)
(* reassemble the parts as the receiver does, decode the payload.          *)
(***************************************************************************)
MaxBbqrLen == 3
BbqrLongLen == 40
BbqrHugeLen == 6475

\* Short inputs, which deflate makes longer, a run and periodic inputs, which
\* it makes shorter, and an input whose compressed form needs several parts
BbqrData ==
  (SeqsUpTo({0, 97, 200}, MaxBbqrLen) \ {<<>>})
  \cup {<<1, 2, 3, 4, 5, 6, 7, 8, 9, 10, 11>>, <<>>}
  \cup {Periodic(p, BbqrLongLen) : p \in {<<97>>, <<200, 97, 0>>, <<1, 200, 3, 201, 5, 202, 7>>}}

\* 'P', 'J', and 'X', which is no file type
BbqrFileTypes == {80, 74, 88}

\* 15 is below the minimum; 16..23 leave room for one Base32 group per part
BbqrMaxChars == {15, 16, 23, 24, 40, 400}

BqIdle ==
  /\ bq_phase = "idle"
  /\ bq_in = [data |-> <<>>, data_len |-> 0, file_type |-> 0, max_chars_per_qr |-> 0]
  /\ bq_parts = [ok |-> FALSE, parts |-> <<>>]
  /\ bq_joined = [ok |-> FALSE, encoding |-> 0, payload |-> <<>>]
  /\ bq_out = [ok |-> FALSE, out |-> <<>>]

\* bbqr_encode(data, data_len, file_type, max_chars_per_qr)
BqEncode ==
  /\ bq_phase = "idle"
  /\ \E d \in BbqrData, ft \in BbqrFileTypes, m \in BbqrMaxChars :
       /\ bq_in' = [data |-> d, data_len |-> Len(d), file_type |-> ft,
                   max_chars_per_qr |-> m]
       /\ bq_parts' = bbqr_encode(d, ft, m)
  /\ bq_phase' = "encoded"
  /\ UNCHANGED <<bq_joined, bq_out, bq_others>>

\* bbqr_encode on data too long to enumerate: data_len bytes that deflate
\* does not shorten, of which only the length is kept.  Their Base32 text
\* has base32_encoded_len(data_len) characters, whose values the split does
\* not look at.
BqEncodeLong ==
  /\ bq_phase = "idle"
  /\ \E n \in {BbqrHugeLen, BbqrHugeLen + 1}, ft \in BbqrFileTypes, m \in {16, 400} :
       /\ bq_in' = [data |-> <<>>, data_len |-> n, file_type |-> ft,
                    max_chars_per_qr |-> m]
       /\ bq_parts' = IF ~bbqr_is_valid_file_type(ft) \/ m < BBQR_HEADER_LEN + 8
                      THEN [ok |-> FALSE, parts |-> <<>>]
                      ELSE bbqr_split([encoding |-> 50,
                                       text |-> Rep(65, base32_encoded_len(n))],
                                      ft, m)
  /\ bq_phase' = "encoded_long"
  /\ UNCHANGED <<bq_joined, bq_out, bq_others>>

RECURSIVE JoinPayloads(_, _)
JoinPayloads(parsed, n) ==
  IF n = 0 THEN <<>> ELSE JoinPayloads(parsed, n - 1) \o parsed[n].payload

\* The receiver: bbqr_parse_part on every part, in index order, checking the
\* headers against the first one and appending the payloads
AssembleParts(parts) ==
  LET parsed == [i \in 1..Len(parts) |-> bbqr_parse_part(parts[i])]
  IN IF Len(parts) > 0
        /\ \A i \in 1..Len(parts) :
             /\ parsed[i].ok
             /\ parsed[i].index = i - 1
             /\ parsed[i].encoding = parsed[1].encoding
             /\ parsed[i].file_type = parsed[1].file_type
        /\ parsed[1].total = Len(parts)
     THEN [ok |-> TRUE, encoding |-> parsed[1].encoding,
           payload |-> JoinPayloads(parsed, Len(parts))]
     ELSE [ok |-> FALSE, encoding |-> 0, payload |-> <<>>]

BqAssemble ==
  /\ bq_phase = "encoded"
  /\ bq_parts.ok
  /\ bq_joined' = AssembleParts(bq_parts.parts)
  /\ bq_phase' = "joined"
  /\ UNCHANGED <<bq_in, bq_parts, bq_out, bq_others>>

\* bbqr_decode_payload(encoding, payload, payload_len, &out_len)
BqDecode ==
  /\ bq_phase = "joined"
  /\ bq_joined.ok
  /\ \E r \in {bbqr_decode_payload(bq_joined.encoding, bq_joined.payload)} :
       bq_out' = [ok |-> r.ok, out |-> r.out]
  /\ bq_phase' = "decoded"
  /\ UNCHANGED <<bq_in, bq_parts, bq_joined, bq_others>>

BqReset ==
  /\ bq_phase \in {"encoded", "encoded_long", "joined", "decoded"}
  /\ bq_phase' = "idle"
  /\ bq_in' = [data |-> <<>>, data_len |-> 0, file_type |-> 0, max_chars_per_qr |-> 0]
  /\ bq_parts' = [ok |-> FALSE, parts |-> <<>>]
  /\ bq_joined' = [ok |-> FALSE, encoding |-> 0, payload |-> <<>>]
  /\ bq_out' = [ok |-> FALSE, out |-> <<>>]
  /\ UNCHANGED bq_others

C9_PartFits ==
  bq_parts.ok =>
    \A i \in 1..Len(bq_parts.parts) :
      Len(bq_parts.parts[i]) <= bq_in.max_chars_per_qr

\* C9 witness: several parts, one of them exactly max_chars_per_qr long
C9_Witness ==
  /\ bq_parts.ok
  /\ Len(bq_parts.parts) > 1
  /\ bq_in.max_chars_per_qr = 24
  /\ \E i \in 1..Len(bq_parts.parts) :
       Len(bq_parts.parts[i]) = bq_in.max_chars_per_qr

\* C26: every successful bbqr_encode returns between 1 and 1295 parts, and
\* each part parses with total equal to the number of parts, index equal to
\* its position, the encoding and file type of every other part, and a
\* payload that is not empty.
C26_PartsWellFormed ==
  bq_parts.ok =>
    /\ Len(bq_parts.parts) >= 1
    /\ Len(bq_parts.parts) <= 1295
    /\ \A i \in 1..Len(bq_parts.parts) :
         LET p == bbqr_parse_part(bq_parts.parts[i])
         IN /\ p.ok
            /\ p.total = Len(bq_parts.parts)
            /\ p.index = i - 1
            /\ p.encoding = bbqr_parse_part(bq_parts.parts[1]).encoding
            /\ p.file_type = bbqr_parse_part(bq_parts.parts[1]).file_type
            /\ p.file_type = bq_in.file_type
            /\ Len(p.payload) > 0

\* C26 witness: an encode that returned exactly 1295 parts
C26_Witness ==
  /\ bq_parts.ok
  /\ Len(bq_parts.parts) = 1295
  /\ bbqr_parse_part(bq_parts.parts[1295]).index = 1294

(***************************************************************************)
(* Specification of Base32: bytes are encoded and the text decoded again,  *)
(* or a text is decoded and the bytes encoded again.  The buffers have the *)
(* sizes base32.h asks for.                                                *)
(***************************************************************************)
MaxB32Bytes == 6
MaxB32Chars == 5

B32Bytes == SeqsUpTo({0, 102, 255}, MaxB32Bytes)

\* Texts of the characters M, q and 7 (12, 16 and 31 in the alphabet) with
\* any padding, as they are, with a space after the first character, and
\* behind a character that is not in the alphabet
B32Texts ==
  LET data == SeqsUpTo({77, 113, 55}, MaxB32Chars)
              \cup {Periodic(p, n) : p \in {<<77>>, <<113, 55>>, <<55, 77, 113>>},
                                     n \in {7, 8, 10, 15, 16}}
      padded == {d \o Rep(61, k) : d \in data, k \in {0, 1, 2, 3, 4, 6}}
  IN padded
     \cup {<<x[1], 32>> \o SubSeq(x, 2, Len(x)) : x \in padded \ {<<>>}}
     \cup {<<49>> \o x : x \in padded}

B32Idle ==
  b32 = [phase |-> "idle", in |-> <<>>, enc |-> <<>>,
         dec |-> [ok |-> FALSE, out |-> <<>>]]

\* base32_encode(in, len, output, base32_encoded_len(len) + 1)
B32Encode ==
  /\ b32.phase = "idle"
  /\ \E in \in B32Bytes :
       b32' = [b32 EXCEPT !.phase = "encoded", !.in = in,
                 !.enc = base32_encode(in, base32_encoded_len(Len(in)) + 1)]
  /\ UNCHANGED b32_others

\* base32_decode of what base32_encode wrote, the length being its result
B32Decode ==
  /\ b32.phase = "encoded"
  /\ \E r \in {base32_decode(b32.enc, base32_decoded_len(Len(b32.enc)))} :
       b32' = [b32 EXCEPT !.phase = "decoded",
                 !.dec = [ok |-> r.ok, out |-> IF r.ok THEN r.out ELSE <<>>]]
  /\ UNCHANGED b32_others

\* base32_decode(in, len, output, base32_decoded_len(len), &out_len)
B32DecodeText ==
  /\ b32.phase = "idle"
  /\ \E in \in B32Texts :
       \E r \in {base32_decode(in, base32_decoded_len(Len(in)))} :
         b32' = [b32 EXCEPT !.phase = "text_decoded", !.in = in,
                   !.dec = [ok |-> r.ok, out |-> IF r.ok THEN r.out ELSE <<>>]]
  /\ UNCHANGED b32_others

\* base32_encode of the bytes base32_decode returned
B32Reencode ==
  /\ b32.phase = "text_decoded"
  /\ b32.dec.ok
  /\ b32' = [b32 EXCEPT !.phase = "reencoded",
               !.enc = base32_encode(b32.dec.out,
                                     base32_encoded_len(Len(b32.dec.out)) + 1)]
  /\ UNCHANGED b32_others

B32Reset ==
  /\ b32.phase \in {"decoded", "text_decoded", "reencoded"}
  /\ b32' = [phase |-> "idle", in |-> <<>>, enc |-> <<>>,
             dec |-> [ok |-> FALSE, out |-> <<>>]]
  /\ UNCHANGED b32_others

\* C14 as stated: for every byte string B, base32_decode of the padded output
\* of base32_encode(B) succeeds and returns exactly B.
C14_DecodeOfEncodeAll ==
  b32.phase = "decoded" => b32.dec.ok /\ b32.dec.out = b32.in

\* C14: for every byte string B that is not empty, base32_decode of the
\* padded output of base32_encode(B) succeeds and returns exactly B; for the
\* empty byte string base32_encode writes nothing and returns 0, and
\* base32_decode of that fails.
C14_DecodeOfEncode ==
  b32.phase = "decoded" =>
    IF b32.in # <<>> THEN b32.dec.ok /\ b32.dec.out = b32.in
    ELSE b32.enc = <<>> /\ ~b32.dec.ok

\* C14 witness: four bytes, the last 255, came back from seven characters
\* and one '='
C14_Witness ==
  /\ b32.phase = "decoded"
  /\ Len(b32.in) = 4
  /\ b32.in[4] = 255
  /\ Len(b32.enc) = 8
  /\ b32.enc[7] # 61
  /\ b32.enc[8] = 61
  /\ b32.dec.out = b32.in

\* C15 as stated: for any input x that base32_decode accepts, base32_encode
\* of the decoded bytes is x with its letters upper-cased.
C15_EncodeOfDecodeAll ==
  b32.phase = "reencoded" =>
    b32.enc = [i \in 1..Len(b32.in) |-> toupper(b32.in[i])]

\* C15: for any input x that base32_decode accepts and that has the form
\* base32_encode writes but for the case of its letters (whole groups of
\* eight characters; 0, 1, 3, 4 or 6 '=' at the end and nowhere else; no
\* whitespace; the bits of the last character that belong to no byte zero),
\* base32_encode of the decoded bytes is x with its letters upper-cased.
C15_EncodeOfDecode ==
  LET x == b32.in
      n == base32_unpadded_len(x, Len(x))
  IN (/\ b32.phase = "reencoded"
      /\ n > 0
      /\ Len(x) % 8 = 0
      /\ Len(x) - n \in {0, 1, 3, 4, 6}
      /\ \A i \in 1..n : BASE32_DECODE_TABLE(x[i]) >= 0
      /\ BASE32_DECODE_TABLE(x[n]) % (2 ^ ((5 * n) % 8)) = 0)
     => b32.enc = [i \in 1..Len(x) |-> toupper(x[i])]

\* C15 witness: a padded text with a lower-case letter was decoded and
\* encoded again to its upper-case form
C15_Witness ==
  /\ b32.phase = "reencoded"
  /\ Len(b32.in) = 8
  /\ b32.in[8] = 61
  /\ \E i \in 1..8 : b32.in[i] \in 97..122
  /\ Len(b32.dec.out) > 0
  /\ b32.enc = [i \in 1..8 |-> toupper(b32.in[i])]
  /\ b32.enc # b32.in

(***************************************************************************)
(* crypto_utils: the primitives kef.c calls.  Their code is not part of    *)
(* this source tree, so they are modelled from the interface kef.c relies  *)
(* on: the sizes, a digest that depends on every byte and on the length,   *)
(* a block cipher that is a bijection on 16-byte blocks under a key, the   *)
(* chaining of ECB, CBC and CTR, a GCM tag over key, iv and ciphertext.    *)
(* On the aligned inputs kef.c hands them the ciphers return CRYPTO_OK.    *)
(***************************************************************************)
CRYPTO_AES_BLOCK_SIZE == 16

\* The running state h of the digest after data[lo+1 .. hi] as well.  The
\* range is halved to keep the recursion shallow, and the test on the first
\* half's state only makes TLC compute it before the second half starts: a
\* state is never negative.
RECURSIVE sha_absorb(_, _, _, _)
sha_absorb(h, data, lo, hi) ==
  IF lo >= hi THEN h
  ELSE IF hi = lo + 1 THEN (h * 31 + data[hi] + 1) % 65521
  ELSE LET first == sha_absorb(h, data, lo, (lo + hi) \div 2)
       IN IF first >= 0 THEN sha_absorb(first, data, (lo + hi) \div 2, hi)
          ELSE first

\* crypto_sha256(data, len, hash): the 32 bytes of the digest
crypto_sha256(data) ==
  LET h == sha_absorb(1, data, 0, Len(data))
  IN [i \in 1..32 |-> IF i = 1 THEN h % 256
                      ELSE IF i = 2 THEN h \div 256
                      ELSE (h * i + 17 * i) % 256]

\* crypto_pbkdf2_sha256(password, salt, iterations, key, 32): the key
crypto_pbkdf2_sha256(password, salt, iterations) ==
  crypto_sha256(<<Len(password)>> \o password \o salt
                \o <<iterations % 256, (iterations \div 256) % 256,
                     (iterations \div 65536) % 256, iterations \div 16777216>>)

\* What the block cipher under `key` adds to the byte at position i (from 1)
\* of a block-aligned buffer
aes_pad(key, i) == key[((i - 1) % 16) + 1] + key[((i - 1) % 16) + 17]

crypto_aes_ecb_encrypt(key, in) ==
  [i \in 1..Len(in) |-> (in[i] + aes_pad(key, i)) % 256]

crypto_aes_ecb_decrypt(key, in) ==
  [i \in 1..Len(in) |-> (in[i] + 512 - aes_pad(key, i)) % 256]

\* The first n bytes of the CBC ciphertext: each block is XORed with the
\* ciphertext block before it (the iv for the first) and then enciphered
RECURSIVE crypto_aes_cbc_encrypt(_, _, _, _)
crypto_aes_cbc_encrypt(key, iv, in, n) ==
  IF n = 0 THEN <<>>
  ELSE LET prev == crypto_aes_cbc_encrypt(key, iv, in, n - 1)
       IN Append(prev, (BitXor(in[n], IF n <= 16 THEN iv[n] ELSE prev[n - 16])
                        + aes_pad(key, n)) % 256)

crypto_aes_cbc_decrypt(key, iv, in) ==
  [i \in 1..Len(in) |->
     BitXor((in[i] + 512 - aes_pad(key, i)) % 256,
            IF i <= 16 THEN iv[i] ELSE in[i - 16])]

\* crypto_aes_ctr: the same call enciphers and deciphers; the key stream is
\* the enciphered counter block, iv (12 bytes) followed by the block number
crypto_aes_ctr(key, iv, in) ==
  [i \in 1..Len(in) |->
     BitXor(in[i], (iv[((i - 1) % 12) + 1] + ((i - 1) \div 16)
                    + aes_pad(key, i)) % 256)]

\* crypto_aes_gcm_encrypt: the ciphertext and the first tag_len tag bytes
crypto_aes_gcm_encrypt(key, iv, in, tag_len) ==
  LET ct == crypto_aes_ctr(key, iv, in)
  IN [ct |-> ct, tag |-> SubSeq(crypto_sha256(key \o iv \o ct), 1, tag_len)]

\* crypto_aes_gcm_decrypt: the tag is checked before anything is deciphered
crypto_aes_gcm_decrypt(key, iv, in, tag) ==
  IF SubSeq(crypto_sha256(key \o iv \o in), 1, Len(tag)) # tag
  THEN [rc |-> "CRYPTO_ERR_AUTH_FAILED", out |-> <<>>]
  ELSE [rc |-> "CRYPTO_OK", out |-> crypto_aes_ctr(key, iv, in)]

\* crypto_pkcs7_pad: 1..16 bytes of padding, each holding their number
crypto_pkcs7_pad(in) ==
  in \o Rep(CRYPTO_AES_BLOCK_SIZE - (Len(in) % CRYPTO_AES_BLOCK_SIZE),
            CRYPTO_AES_BLOCK_SIZE - (Len(in) % CRYPTO_AES_BLOCK_SIZE))

\* crypto_pkcs7_unpad: the length without the padding, 0 if it is malformed
crypto_pkcs7_unpad(buf) ==
  LET n == IF Len(buf) = 0 THEN 0 ELSE buf[Len(buf)]
  IN IF n < 1 \/ n > CRYPTO_AES_BLOCK_SIZE \/ n > Len(buf) THEN 0
     ELSE IF \A i \in (Len(buf) - n + 1)..Len(buf) : buf[i] = n
     THEN Len(buf) - n
     ELSE 0

(***************************************************************************)
(* Specification of the BBQr part header: bbqr_parse_part on scanned       *)
(* strings.                                                                *)
(***************************************************************************)
MaxPartPayload == 1

\* Strings of a magic, an encoding, a file type, two characters of total,
\* two of index and a payload, well-formed or not, and their prefixes that
\* are too short for a header
PpParts ==
  LET full == {m \o <<e, t>> \o n \o i \o Rep(65, k) :
                 m \in {<<66, 36>>, <<98, 36>>, <<66, 35>>},
                 e \in {72, 104, 50, 90, 122, 88},
                 t \in {80, 112, 84, 74, 85, 117, 81},
                 n \in {<<48, 48>>, <<48, 49>>, <<48, 50>>, <<48, 122>>, <<90, 90>>,
                        <<122, 122>>, <<48, 45>>, <<49, 65>>},
                 i \in {<<48, 48>>, <<48, 49>>, <<48, 121>>, <<90, 89>>, <<90, 90>>,
                        <<45, 48>>, <<48, 97>>},
                 k \in 0..MaxPartPayload}
  IN full \cup {SubSeq(<<66, 36, 90, 80, 48, 49, 48, 48>>, 1, k) : k \in 0..7}

PpIdle ==
  pp = [phase |-> "idle", data |-> <<>>,
        part |-> [ok |-> FALSE, encoding |-> 0, file_type |-> 0, total |-> 0,
                  index |-> 0, payload |-> <<>>]]

\* bbqr_parse_part(data, data_len, &part)
PpParse ==
  /\ pp.phase = "idle"
  /\ \E data \in PpParts :
       pp' = [phase |-> "parsed", data |-> data, part |-> bbqr_parse_part(data)]
  /\ UNCHANGED pp_others

PpReset ==
  /\ pp.phase = "parsed"
  /\ pp' = [phase |-> "idle", data |-> <<>>,
            part |-> [ok |-> FALSE, encoding |-> 0, file_type |-> 0, total |-> 0,
                      index |-> 0, payload |-> <<>>]]
  /\ UNCHANGED pp_others

\* The value of two base-36 digits of either case, -1 if one is no digit
PpBase36(c1, c2) ==
  LET v(c) == IF c \in 48..57 THEN c - 48
              ELSE IF c \in 65..90 THEN c - 55
              ELSE IF c \in 97..122 THEN c - 87
              ELSE -1
  IN IF v(c1) < 0 \/ v(c2) < 0 THEN -1 ELSE 36 * v(c1) + v(c2)

\* C17 as stated: bbqr_parse_part fails unless the part begins with "B$",
\* byte 2 is one of the upper-case encodings H, 2, Z, byte 3 one of the
\* upper-case file types P, T, J, U, bytes 4-5 are a total in 1..1295 in
\* base 36 and bytes 6-7 an index in 0..total-1.
C17_ParseUpperOnly ==
  (pp.phase = "parsed" /\ pp.part.ok) =>
    /\ Len(pp.data) >= 8
    /\ pp.data[1] = 66 /\ pp.data[2] = 36
    /\ pp.data[3] \in {72, 50, 90}
    /\ pp.data[4] \in {80, 84, 74, 85}
    /\ PpBase36(pp.data[5], pp.data[6]) \in 1..1295
    /\ PpBase36(pp.data[7], pp.data[8]) \in 0..(PpBase36(pp.data[5], pp.data[6]) - 1)

\* C17: bbqr_parse_part fails unless the part has 8 bytes or more, begins
\* with "B$", byte 2 is an encoding H, 2, Z and byte 3 a file type P, T, J, U
\* in either case, bytes 4-5 are a total in 1..1295 in base 36 and bytes 6-7
\* an index in 0..total-1; on every such part it succeeds and returns the
\* encoding and the file type in upper case, the total, the index and the
\* rest of the part as payload.
C17_ParseHeader ==
  pp.phase = "parsed" =>
    /\ pp.part.ok <=>
         /\ Len(pp.data) >= 8
         /\ pp.data[1] = 66 /\ pp.data[2] = 36
         /\ pp.data[3] \in {72, 50, 90, 104, 122}
         /\ pp.data[4] \in {80, 84, 74, 85, 112, 116, 106, 117}
         /\ PpBase36(pp.data[5], pp.data[6]) \in 1..1295
         /\ PpBase36(pp.data[7], pp.data[8])
              \in 0..(PpBase36(pp.data[5], pp.data[6]) - 1)
    /\ pp.part.ok =>
         /\ pp.part.encoding \in {72, 50, 90}
         /\ pp.part.file_type \in {80, 84, 74, 85}
         /\ pp.part.total = PpBase36(pp.data[5], pp.data[6])
         /\ pp.part.index = PpBase36(pp.data[7], pp.data[8])
         /\ pp.part.payload = SubSeq(pp.data, 9, Len(pp.data))

\* C17 witness: the last part of 1295, "B$zuZZZY" with a payload, was parsed
C17_Witness ==
  /\ pp.phase = "parsed"
  /\ pp.part.ok
  /\ pp.data[3] = 122
  /\ pp.data[4] = 117
  /\ pp.part.encoding = 90
  /\ pp.part.total = 1295
  /\ pp.part.index = 1294
  /\ Len(pp.part.payload) = 1

(***************************************************************************)
(* secure_mem.h and kef.c: the KEF envelope.                               *)
(*                                                                         *)
(* kef_encrypt and kef_decrypt are modelled as the sequence of their       *)
(* sections, each an operator on the record of the function's locals.  go  *)
(* is FALSE once a section has jumped to cleanup, err is the code to       *)
(* return, and frees lists every heap buffer released so far: its name,    *)
(* what it holds and whether it was zeroized first.  malloc succeeds.      *)
(***************************************************************************)
KEF_MAX_ID_LEN == 255
KEF_ITER_THRESHOLD == 10000
KEF_MIN_HEADER == 6

\* secure_memcmp: diff, the OR of the XORs of all len byte pairs (bit k of it
\* is set when some pair differs in bit k), and the number of iterations of
\* its loop, which has no exit but its bound
secure_memcmp(a, b, len) ==
  LET bit(k) == IF \E i \in 1..len : (BitXor(a[i], b[i]) \div (2 ^ k)) % 2 = 1
                THEN 2 ^ k ELSE 0
  IN [diff |-> bit(0) + bit(1) + bit(2) + bit(3) + bit(4) + bit(5) + bit(6) + bit(7),
      steps |-> len]

k_versions ==
  LET vi(v, m, iv, p, z, a, n) ==
        [version |-> v, mode |-> m, iv_size |-> iv, padding |-> p,
         compress |-> z, auth_type |-> a, auth_size |-> n]
  IN << vi(0, "MODE_ECB", 0, "PAD_NUL", FALSE, "AUTH_HIDDEN", 16),
        vi(1, "MODE_CBC", 16, "PAD_NUL", FALSE, "AUTH_HIDDEN", 16),
        vi(5, "MODE_ECB", 0, "PAD_NUL", FALSE, "AUTH_EXPOSED", 3),
        vi(6, "MODE_ECB", 0, "PAD_PKCS7", FALSE, "AUTH_HIDDEN", 4),
        vi(7, "MODE_ECB", 0, "PAD_PKCS7", TRUE, "AUTH_HIDDEN", 4),
        vi(10, "MODE_CBC", 16, "PAD_NUL", FALSE, "AUTH_EXPOSED", 4),
        vi(11, "MODE_CBC", 16, "PAD_PKCS7", FALSE, "AUTH_HIDDEN", 4),
        vi(12, "MODE_CBC", 16, "PAD_PKCS7", TRUE, "AUTH_HIDDEN", 4),
        vi(15, "MODE_CTR", 12, "PAD_NONE", FALSE, "AUTH_HIDDEN", 4),
        vi(16, "MODE_CTR", 12, "PAD_NONE", TRUE, "AUTH_HIDDEN", 4),
        vi(20, "MODE_GCM", 12, "PAD_NONE", FALSE, "AUTH_GCM", 4),
        vi(21, "MODE_GCM", 12, "PAD_NONE", TRUE, "AUTH_GCM", 4) >>

\* find_version: the table entry, or one of mode "NULL" for the NULL return
find_version(version) ==
  IF \E i \in 1..Len(k_versions) : k_versions[i].version = version
  THEN k_versions[CHOOSE i \in 1..Len(k_versions) : k_versions[i].version = version]
  ELSE [version |-> version, mode |-> "NULL", iv_size |-> 0, padding |-> "PAD_NONE",
        compress |-> FALSE, auth_type |-> "AUTH_HIDDEN", auth_size |-> 0]

\* kef_encode_iterations: the three bytes written; the casts keep the low
\* eight bits of each shift
kef_encode_iterations(effective) ==
  LET stored == IF effective >= KEF_ITER_THRESHOLD
                   /\ effective % KEF_ITER_THRESHOLD = 0
                   /\ effective \div KEF_ITER_THRESHOLD <= KEF_ITER_THRESHOLD
                THEN effective \div KEF_ITER_THRESHOLD
                ELSE effective
  IN <<Shr(stored, 16) % 256, Shr(stored, 8) % 256, stored % 256>>

kef_decode_iterations(stored) ==
  LET val == stored[1] * 65536 + stored[2] * 256 + stored[3]
  IN IF val <= KEF_ITER_THRESHOLD THEN val * KEF_ITER_THRESHOLD ELSE val

compute_hidden_auth(data, auth_size) == SubSeq(crypto_sha256(data), 1, auth_size)

\* compute_exposed_auth: the auth bytes and the scratch buffer it releases
compute_exposed_auth(version, iv, data, key, auth_size) ==
  [auth |-> SubSeq(crypto_sha256(<<version>> \o iv \o data \o key), 1, auth_size),
   free |-> [buf |-> "exposed_auth_buf", holds |-> "key", zeroized |-> TRUE]]

\* A variant of has_duplicate_blocks that compares neighbouring blocks only
has_adjacent_duplicate_blocks(data) ==
  \E i \in 0..(Len(data) \div CRYPTO_AES_BLOCK_SIZE - 2) :
     Slice(data, i * CRYPTO_AES_BLOCK_SIZE, CRYPTO_AES_BLOCK_SIZE)
       = Slice(data, (i + 1) * CRYPTO_AES_BLOCK_SIZE, CRYPTO_AES_BLOCK_SIZE)

has_duplicate_blocks(data) ==
  \E i \in 0..(Len(data) \div CRYPTO_AES_BLOCK_SIZE - 1) :
    \E j \in (i + 1)..(Len(data) \div CRYPTO_AES_BLOCK_SIZE - 1) :
       Slice(data, i * CRYPTO_AES_BLOCK_SIZE, CRYPTO_AES_BLOCK_SIZE)
         = Slice(data, j * CRYPTO_AES_BLOCK_SIZE, CRYPTO_AES_BLOCK_SIZE)

\* cipher_encrypt and cipher_decrypt: the bytes written; the default branch
\* (CRYPTO_ERR_INVALID_ARG) is never taken, GCM being handled by the callers
cipher_encrypt(vi, key, iv, in) ==
  IF vi.mode = "MODE_ECB" THEN crypto_aes_ecb_encrypt(key, in)
  ELSE IF vi.mode = "MODE_CBC" THEN crypto_aes_cbc_encrypt(key, iv, in, Len(in))
  ELSE crypto_aes_ctr(key, iv, in)

cipher_decrypt(vi, key, iv, in) ==
  IF vi.mode = "MODE_ECB" THEN crypto_aes_ecb_decrypt(key, in)
  ELSE IF vi.mode = "MODE_CBC" THEN crypto_aes_cbc_decrypt(key, iv, in)
  ELSE crypto_aes_ctr(key, iv, in)

\* apply_padding: the padded buffer.  crypto_pkcs7_pad has room for a whole
\* block of padding, so its failure branch is not taken.
apply_padding(pad, in) ==
  IF pad = "PAD_NUL"
  THEN LET padded == ((Len(in) + CRYPTO_AES_BLOCK_SIZE - 1)
                        \div CRYPTO_AES_BLOCK_SIZE) * CRYPTO_AES_BLOCK_SIZE
       IN in \o Rep(0, (IF padded = 0 THEN CRYPTO_AES_BLOCK_SIZE ELSE padded) - Len(in))
  ELSE IF pad = "PAD_PKCS7" THEN crypto_pkcs7_pad(in)
  ELSE in

\* The length of dec without its trailing NUL bytes (both nul_unpad loops)
nul_stripped(dec) ==
  CHOOSE k \in 0..Len(dec) :
    (k = 0 \/ dec[k] # 0) /\ \A j \in (k + 1)..Len(dec) : dec[j] = 0

\* nul_unpad_verify_hidden: [err, data_len].  The loop returns at the first
\* nuls in 0..auth_size whose candidate verifies.
nul_unpad_verify_hidden(dec, auth_size) ==
  LET stripped == nul_stripped(dec)
      ok == {nuls \in 0..auth_size :
               /\ stripped + nuls >= auth_size
               /\ stripped + nuls <= Len(dec)
               /\ secure_memcmp(
                    crypto_sha256(SubSeq(dec, 1, stripped + nuls - auth_size)),
                    SubSeq(dec, stripped + nuls - auth_size + 1, stripped + nuls),
                    auth_size).diff = 0}
  IN IF ok = {} THEN [err |-> "KEF_ERR_AUTH", data_len |-> 0, frees |-> <<>>]
     ELSE [err |-> "KEF_OK", frees |-> <<>>,
           data_len |-> stripped - auth_size
                        + (CHOOSE n \in ok : \A m \in ok : n <= m)]

\* nul_unpad_verify_exposed: [err, data_len, frees], frees being the scratch
\* buffers of the compute_exposed_auth calls made
nul_unpad_verify_exposed(dec, version, iv, key, expected_auth, auth_size) ==
  LET stripped == nul_stripped(dec)
      tried == {nuls \in 0..auth_size : stripped + nuls <= Len(dec)}
      ok == {nuls \in tried :
               secure_memcmp(
                 compute_exposed_auth(version, iv, SubSeq(dec, 1, stripped + nuls),
                                      key, auth_size).auth,
                 expected_auth, auth_size).diff = 0}
      last == IF ok = {} THEN CHOOSE n \in tried : \A m \in tried : m <= n
              ELSE CHOOSE n \in ok : \A m \in ok : n <= m
  IN [err |-> IF ok = {} THEN "KEF_ERR_AUTH" ELSE "KEF_OK",
      data_len |-> IF ok = {} THEN 0 ELSE stripped + last,
      frees |-> [i \in 1..(last + 1) |->
                   compute_exposed_auth(version, iv, <<>>, key, auth_size).free]]

\* kef_parse_header: [err, id, version, iterations].  version_out and
\* iterations_out say whether these pointers are not NULL; envelope, id_out
\* and id_len_out are not NULL in any call.
kef_parse_header(envelope, version_out, iterations_out) ==
  IF Len(envelope) < KEF_MIN_HEADER \/ ~version_out \/ ~iterations_out
  THEN [err |-> "KEF_ERR_INVALID_ARG", id |-> <<>>, version |-> 0, iterations |-> 0]
  ELSE IF envelope[1] = 0 \/ envelope[1] > KEF_MAX_ID_LEN
  THEN [err |-> "KEF_ERR_INVALID_ARG", id |-> <<>>, version |-> 0, iterations |-> 0]
  ELSE IF Len(envelope) < 1 + envelope[1] + 1 + 3
  THEN [err |-> "KEF_ERR_ENVELOPE_TOO_SHORT", id |-> <<>>, version |-> 0,
        iterations |-> 0]
  ELSE [err |-> "KEF_OK",
        id |-> SubSeq(envelope, 2, 1 + envelope[1]),
        version |-> envelope[1 + envelope[1] + 1],
        iterations |-> kef_decode_iterations(
                         SubSeq(envelope, envelope[1] + 3, envelope[1] + 5))]

\* A variant of kef_is_envelope that does not count the bytes of the
\* exposed auth or GCM tag
kef_is_envelope_no_auth(data) ==
  LET h == kef_parse_header(data, TRUE, TRUE)
      vi == find_version(h.version)
      min_cipher == IF vi.mode = "MODE_ECB" \/ vi.mode = "MODE_CBC"
                    THEN CRYPTO_AES_BLOCK_SIZE ELSE 1
  IN IF Len(data) < KEF_MIN_HEADER THEN FALSE
     ELSE IF h.err # "KEF_OK" THEN FALSE
     ELSE IF vi.mode = "NULL" THEN FALSE
     ELSE Len(data) >= 1 + Len(h.id) + 1 + 3 + vi.iv_size + min_cipher

\* A variant of kef_is_envelope that does not look the version up
kef_is_envelope_any_version(data) ==
  LET h == kef_parse_header(data, TRUE, TRUE)
  IN IF Len(data) < KEF_MIN_HEADER THEN FALSE
     ELSE IF h.err # "KEF_OK" THEN FALSE
     ELSE Len(data) >= 1 + Len(h.id) + 1 + 3 + CRYPTO_AES_BLOCK_SIZE

\* kef_is_envelope: what it returns; it calls kef_parse_header and
\* find_version and nothing else
kef_is_envelope(data) ==
  LET h == kef_parse_header(data, TRUE, TRUE)
      vi == find_version(h.version)
      min_cipher == IF vi.mode = "MODE_ECB" \/ vi.mode = "MODE_CBC"
                    THEN CRYPTO_AES_BLOCK_SIZE ELSE 1
      has_exposed == vi.auth_type = "AUTH_EXPOSED" \/ vi.auth_type = "AUTH_GCM"
  IN IF Len(data) < KEF_MIN_HEADER THEN FALSE
     ELSE IF h.err # "KEF_OK" THEN FALSE
     ELSE IF vi.mode = "NULL" THEN FALSE
     ELSE Len(data) >= 1 + Len(h.id) + 1 + 3 + vi.iv_size + min_cipher
                       + (IF has_exposed THEN vi.auth_size ELSE 0)

(***************************************************************************)
(* kef_encrypt                                                             *)
(***************************************************************************)
\* The locals of kef_encrypt after key derivation and IV generation; rnd is
\* what crypto_random_bytes delivers.  A buffer pointer that is NULL is the
\* empty sequence: no buffer of kef_encrypt is empty once allocated.
KefEncryptLocals(id, version, password, iterations, plaintext, rnd) ==
  [vi |-> find_version(version), id |-> id, version |-> version,
   iterations |-> iterations,
   key |-> crypto_pbkdf2_sha256(password, id, iterations),
   iv |-> SubSeq(rnd, 1, find_version(version).iv_size),
   work |-> plaintext, compressed |-> <<>>, pre_pad |-> <<>>,
   padded |-> <<>>, go |-> TRUE, err |-> "KEF_ERR_CRYPTO",
   out |-> <<>>, out_set |-> FALSE, frees |-> <<>>]

\* if (vi->compress): d is the state mz_deflate_raw_alloc_wbits ends in
kef_encrypt_compress(c, d) ==
  IF ~c.vi.compress THEN c
  ELSE IF d.ret # "MZ_OK"
  THEN [c EXCEPT !.frees = @ \o mz_deflate_frees(d), !.go = FALSE,
                 !.err = "KEF_ERR_COMPRESS"]
  ELSE [c EXCEPT !.frees = @ \o mz_deflate_frees(d), !.compressed = d.out,
                 !.work = d.out]

\* Build pre-pad buffer, pad, ECB duplicate-block check
kef_encrypt_pad(c, pre_pad) ==
  IF ~c.go THEN c
  ELSE [c EXCEPT
          !.pre_pad = pre_pad,
          !.padded = apply_padding(c.vi.padding, pre_pad),
          !.go = ~(c.vi.mode = "MODE_ECB"
                   /\ has_duplicate_blocks(apply_padding(c.vi.padding, pre_pad))),
          !.err = IF c.vi.mode = "MODE_ECB"
                     /\ has_duplicate_blocks(apply_padding(c.vi.padding, pre_pad))
                  THEN "KEF_ERR_DUPLICATE_BLOCKS" ELSE @]

kef_encrypt_pre_pad(c) ==
  IF ~c.go THEN c
  ELSE kef_encrypt_pad(c, IF c.vi.auth_type = "AUTH_HIDDEN"
                          THEN c.work \o compute_hidden_auth(c.work, c.vi.auth_size)
                          ELSE c.work)

\* Allocate envelope, write header and IV, encrypt, append the exposed auth
kef_encrypt_cipher(c) ==
  IF ~c.go THEN c
  ELSE LET header == <<Len(c.id)>> \o c.id \o <<c.version>>
                     \o kef_encode_iterations(c.iterations) \o c.iv
           gcm == crypto_aes_gcm_encrypt(c.key, c.iv, c.padded, c.vi.auth_size)
           exposed == compute_exposed_auth(c.version, c.iv, c.work, c.key,
                                           c.vi.auth_size)
       IN IF c.vi.mode = "MODE_GCM"
          THEN [c EXCEPT !.out = header \o gcm.ct \o gcm.tag, !.out_set = TRUE,
                         !.err = "KEF_OK"]
          ELSE IF c.vi.auth_type = "AUTH_EXPOSED"
          THEN [c EXCEPT !.out = header
                                 \o cipher_encrypt(c.vi, c.key, c.iv, c.padded)
                                 \o exposed.auth,
                         !.frees = Append(@, exposed.free), !.out_set = TRUE,
                         !.err = "KEF_OK"]
          ELSE [c EXCEPT !.out = header
                                 \o cipher_encrypt(c.vi, c.key, c.iv, c.padded),
                         !.out_set = TRUE, !.err = "KEF_OK"]

\* cleanup: the buffers still held are zeroized and freed.  free(envelope)
\* has a buffer to free only after a failure past its malloc, and the model
\* has none.
kef_encrypt_cleanup(c) ==
  [c EXCEPT !.frees =
     @ \o (IF c.compressed # <<>>
           THEN <<[buf |-> "compressed", holds |-> "compressed", zeroized |-> TRUE]>>
           ELSE <<>>)
       \o (IF c.pre_pad # <<>>
           THEN <<[buf |-> "pre_pad", holds |-> "plaintext", zeroized |-> TRUE]>>
           ELSE <<>>)
       \o (IF c.padded # <<>>
           THEN <<[buf |-> "padded", holds |-> "padded", zeroized |-> TRUE]>>
           ELSE <<>>)]

\* The early returns of kef_encrypt and kef_decrypt, before anything is held
KefReturn(err) ==
  [go |-> FALSE, err |-> err, out |-> <<>>, out_set |-> FALSE, frees |-> <<>>,
   ran |-> <<>>, padded |-> <<>>, gcm_rc |-> "", vi |-> find_version(-1)]

kef_encrypt(id, version, password, iterations, plaintext, rnd) ==
  IF Len(id) = 0 \/ Len(id) > KEF_MAX_ID_LEN \/ Len(password) = 0
     \/ Len(plaintext) = 0 \/ iterations = 0
  THEN KefReturn("KEF_ERR_INVALID_ARG")
  ELSE IF find_version(version).mode = "NULL"
  THEN KefReturn("KEF_ERR_UNSUPPORTED_VERSION")
  ELSE kef_encrypt_cleanup(kef_encrypt_cipher(kef_encrypt_pre_pad(
         kef_encrypt_compress(
           KefEncryptLocals(id, version, password, iterations, plaintext, rnd),
           mz_deflate_raw_alloc_wbits(plaintext, 10)))))

(***************************************************************************)
(* kef_decrypt                                                             *)
(***************************************************************************)
\* A variant of the Decrypt section that goes on after a failed GCM tag
kef_decrypt_cipher_unchecked(c) ==
  IF c.vi.mode = "MODE_GCM"
  THEN [c EXCEPT !.gcm_rc = crypto_aes_gcm_decrypt(c.key, c.iv, c.ciphertext,
                                                   c.exposed_auth).rc,
                 !.decrypted = crypto_aes_ctr(c.key, c.iv, c.ciphertext),
                 !.allocated = TRUE, !.ran = Append(@, "decrypt")]
  ELSE [c EXCEPT !.decrypted = cipher_decrypt(c.vi, c.key, c.iv, c.ciphertext),
                 !.allocated = TRUE, !.ran = Append(@, "decrypt")]

\* Decrypt: malloc(cipher_len), then the AEAD or the plain cipher
kef_decrypt_cipher(c) ==
  IF c.vi.mode = "MODE_GCM"
  THEN LET g == crypto_aes_gcm_decrypt(c.key, c.iv, c.ciphertext, c.exposed_auth)
       IN IF g.rc = "CRYPTO_ERR_AUTH_FAILED"
          THEN [c EXCEPT !.gcm_rc = g.rc, !.allocated = TRUE, !.go = FALSE,
                         !.err = "KEF_ERR_AUTH", !.ran = Append(@, "decrypt")]
          ELSE [c EXCEPT !.gcm_rc = g.rc, !.decrypted = g.out,
                         !.allocated = TRUE, !.ran = Append(@, "decrypt")]
  ELSE [c EXCEPT !.decrypted = cipher_decrypt(c.vi, c.key, c.iv, c.ciphertext),
                 !.allocated = TRUE, !.ran = Append(@, "decrypt")]

\* Verify hidden auth (the PKCS7 and the PAD_NONE branch have the same code)
kef_verify_hidden(c, plain_len) ==
  IF secure_memcmp(crypto_sha256(SubSeq(c.decrypted, 1, plain_len)),
                   SubSeq(c.decrypted, plain_len + 1, plain_len + c.vi.auth_size),
                   c.vi.auth_size).diff # 0
  THEN [c EXCEPT !.go = FALSE, !.err = "KEF_ERR_AUTH", !.plain_len = plain_len,
                 !.ran = Append(@, "unpad")]
  ELSE [c EXCEPT !.plain_len = plain_len, !.ran = Append(@, "unpad")]

\* Unpad + verify auth
kef_decrypt_unpad(c) ==
  IF ~c.go THEN c
  ELSE IF c.vi.auth_type = "AUTH_GCM"
  THEN [c EXCEPT !.plain_len = Len(c.ciphertext)]
  ELSE IF c.vi.padding = "PAD_NUL"
  THEN LET r == IF c.vi.auth_type = "AUTH_HIDDEN"
                THEN nul_unpad_verify_hidden(c.decrypted, c.vi.auth_size)
                ELSE nul_unpad_verify_exposed(c.decrypted, c.version, c.iv, c.key,
                                              c.exposed_auth, c.vi.auth_size)
       IN [c EXCEPT !.plain_len = r.data_len, !.go = (r.err = "KEF_OK"),
                    !.err = IF r.err # "KEF_OK" THEN r.err ELSE @,
                    !.frees = @ \o r.frees, !.ran = Append(@, "unpad")]
  ELSE IF c.vi.padding = "PAD_PKCS7"
  THEN IF crypto_pkcs7_unpad(c.decrypted) = 0
          \/ crypto_pkcs7_unpad(c.decrypted) < c.vi.auth_size
       THEN [c EXCEPT !.go = FALSE, !.err = "KEF_ERR_AUTH",
                      !.ran = Append(@, "unpad")]
       ELSE kef_verify_hidden(c, crypto_pkcs7_unpad(c.decrypted) - c.vi.auth_size)
  ELSE IF Len(c.ciphertext) < c.vi.auth_size
       THEN [c EXCEPT !.go = FALSE, !.err = "KEF_ERR_AUTH",
                      !.ran = Append(@, "unpad")]
       ELSE kef_verify_hidden(c, Len(c.ciphertext) - c.vi.auth_size)

\* Decompress, r being what mz_inflate_raw_alloc returns
kef_decrypt_inflated(c, r) ==
  IF ~r.ok
  THEN [c EXCEPT !.go = FALSE, !.err = "KEF_ERR_DECOMPRESS",
                 !.frees = @ \o r.frees, !.ran = Append(@, "inflate")]
  ELSE [c EXCEPT !.out = r.out, !.out_set = TRUE, !.err = "KEF_OK",
                 !.frees = @ \o r.frees, !.ran = Append(@, "inflate")]

\* Decompress, or copy the plain bytes to a buffer of their own
kef_decrypt_output(c) ==
  IF ~c.go THEN c
  ELSE IF c.vi.compress
  THEN kef_decrypt_inflated(c, mz_inflate_raw_alloc(SubSeq(c.decrypted, 1, c.plain_len)))
  ELSE [c EXCEPT !.out = SubSeq(c.decrypted, 1, c.plain_len), !.out_set = TRUE,
                 !.err = "KEF_OK", !.ran = Append(@, "copy")]

kef_decrypt_cleanup(c) ==
  IF c.allocated
  THEN [c EXCEPT !.frees = Append(@, [buf |-> "decrypted", holds |-> "plaintext",
                                      zeroized |-> TRUE])]
  ELSE c

\* kef_decrypt: validation, header, the parts of the payload, key derivation,
\* then the sections above
kef_decrypt(envelope, password) ==
  LET h == kef_parse_header(envelope, TRUE, TRUE)
      vi == find_version(h.version)
      header_size == 1 + Len(h.id) + 1 + 3
      data_start == header_size + vi.iv_size
      has_exposed == vi.auth_type \in {"AUTH_EXPOSED", "AUTH_GCM"}
      data_end == Len(envelope) - (IF has_exposed THEN vi.auth_size ELSE 0)
  IN IF Len(envelope) = 0 \/ Len(password) = 0
     THEN KefReturn("KEF_ERR_INVALID_ARG")
     ELSE IF h.err # "KEF_OK" THEN KefReturn(h.err)
     ELSE IF vi.mode = "NULL" THEN KefReturn("KEF_ERR_UNSUPPORTED_VERSION")
     ELSE IF data_start > Len(envelope)
             \/ (has_exposed /\ Len(envelope) < data_start + vi.auth_size)
             \/ data_end - data_start = 0
             \/ (vi.mode \in {"MODE_ECB", "MODE_CBC"}
                 /\ (data_end - data_start) % CRYPTO_AES_BLOCK_SIZE # 0)
     THEN KefReturn("KEF_ERR_ENVELOPE_TOO_SHORT")
     ELSE kef_decrypt_cleanup(kef_decrypt_output(kef_decrypt_unpad(
            kef_decrypt_cipher(
              [vi |-> vi, version |-> h.version,
               key |-> crypto_pbkdf2_sha256(password, h.id, h.iterations),
               iv |-> SubSeq(envelope, header_size + 1, data_start),
               ciphertext |-> SubSeq(envelope, data_start + 1, data_end),
               exposed_auth |-> SubSeq(envelope, data_end + 1, Len(envelope)),
               decrypted |-> <<>>, allocated |-> FALSE, plain_len |-> 0,
               go |-> TRUE, err |-> "KEF_ERR_CRYPTO", out |-> <<>>,
               out_set |-> FALSE, frees |-> <<>>, ran |-> <<"derive">>,
               gcm_rc |-> ""]))))

(***************************************************************************)
(* The KEF envelope in use: a caller encrypts, the envelope is stored or   *)
(* shown as a QR code, possibly damaged or opened with another password,   *)
(* and a caller decrypts it.                                               *)
(***************************************************************************)
KefZeroLen == 5
KefTextLen == 40

KefBlock(b) == [i \in 1..CRYPTO_AES_BLOCK_SIZE |-> (b + i) % 256]

\* Plaintexts: short ones, ones ending in NUL bytes, runs of NUL bytes, whole
\* blocks with and without repeats (next to each other and apart), and a
\* periodic text that deflate shortens
KefPlaintexts ==
  { <<65>>, <<65, 0>>, <<7, 0, 0, 0>> }
  \cup { Rep(0, n) : n \in (KefZeroLen - 1)..KefZeroLen }
  \cup { KefBlock(0), KefBlock(0) \o KefBlock(0),
         KefBlock(0) \o KefBlock(1) \o KefBlock(0),
         KefBlock(0) \o KefBlock(0) \o KefBlock(0) }
  \cup { [i \in 1..KefTextLen |-> 97 + (i % 2)] }

KefVersions == {0, 1, 5, 6, 7, 10, 11, 12, 15, 16, 20, 21, 2}
KefIterations == {1, 10000, 10001}
KefIvs == { [i \in 1..CRYPTO_AES_BLOCK_SIZE |-> (s * i) % 256] : s \in {0, 37} }

KfIdle ==
  /\ kf_phase = "idle"
  /\ kf_args = <<>>
  /\ kf_enc = <<>>
  /\ kf_env = <<>>
  /\ kf_dec = <<>>

\* A caller encrypts with the id and the key the user gave
KefEncrypt ==
  /\ kf_phase = "idle"
  /\ \E version \in KefVersions, plaintext \in KefPlaintexts,
        iterations \in KefIterations, rnd \in KefIvs :
       \E r \in {kef_encrypt(<<105, 100>>, version, <<112, 119>>, iterations,
                             plaintext, rnd)} :
          /\ kf_args' = [id |-> <<105, 100>>, version |-> version,
                         password |-> <<112, 119>>, iterations |-> iterations,
                         plaintext |-> plaintext]
          /\ kf_enc' = r
          /\ kf_env' = [envelope |-> r.out, password |-> <<112, 119>>]
          /\ kf_phase' = IF r.err = "KEF_OK" THEN "encrypted" ELSE "refused"
  /\ UNCHANGED <<kf_dec>>
  /\ UNCHANGED kf_others

\* The envelope is damaged in its last byte or in the byte before its
\* trailer, or another password is typed
KefTamper ==
  /\ kf_phase = "encrypted"
  /\ \/ \E at \in {Len(kf_env.envelope), Len(kf_env.envelope) - 4} :
          kf_env' = [kf_env EXCEPT !.envelope[at] = (@ + 1) % 256]
     \/ kf_env' = [kf_env EXCEPT !.password = <<112, 120>>]
  /\ kf_phase' = "tampered"
  /\ UNCHANGED <<kf_args, kf_enc, kf_dec>>
  /\ UNCHANGED kf_others

KefDecrypt ==
  /\ kf_phase \in {"encrypted", "tampered"}
  /\ kf_dec' = kef_decrypt(kf_env.envelope, kf_env.password)
  /\ kf_phase' = IF kf_phase = "encrypted" THEN "decrypted" ELSE "decrypted_tampered"
  /\ UNCHANGED <<kf_args, kf_enc, kf_env>>
  /\ UNCHANGED kf_others

KefReset ==
  /\ kf_phase \in {"refused", "decrypted", "decrypted_tampered"}
  /\ kf_phase' = "idle"
  /\ kf_args' = <<>>
  /\ kf_enc' = <<>>
  /\ kf_env' = <<>>
  /\ kf_dec' = <<>>
  /\ UNCHANGED kf_others

(***************************************************************************)
(* Claims about the KEF envelope.                                          *)
(***************************************************************************)
\* C1: whenever kef_encrypt returns an envelope for a supported version, a
\* non-empty plaintext, an id of 1..255 bytes, a non-empty password and an
\* iteration count of at least 1, kef_decrypt of that envelope with the same
\* password returns KEF_OK and exactly the plaintext.
C1_RoundTrip ==
  kf_phase = "decrypted" =>
    /\ kf_dec.err = "KEF_OK"
    /\ kf_dec.out_set
    /\ kf_dec.out = kf_args.plaintext

\* C2: for the GCM versions kef_decrypt produces no output before the tag is
\* verified: when the tag does not match it returns KEF_ERR_AUTH, leaves the
\* caller's output unset and runs neither unpadding nor decompression, and
\* whenever it sets the output the tag had matched.
C2_GcmTagFirst ==
  (kf_phase \in {"decrypted", "decrypted_tampered"} /\ kf_dec.vi.mode = "MODE_GCM") =>
    /\ kf_dec.gcm_rc = "CRYPTO_ERR_AUTH_FAILED" =>
         /\ kf_dec.err = "KEF_ERR_AUTH"
         /\ ~kf_dec.out_set
         /\ kf_dec.out = <<>>
         /\ kf_dec.ran = <<"derive", "decrypt">>
    /\ kf_dec.out_set => kf_dec.gcm_rc = "CRYPTO_OK"

\* A damaged GCM envelope of the compressing version was refused on its tag
C2_Witness ==
  /\ kf_phase = "decrypted_tampered"
  /\ kf_dec.vi.version = 21
  /\ kf_dec.gcm_rc = "CRYPTO_ERR_AUTH_FAILED"
  /\ kf_dec.err = "KEF_ERR_AUTH"

\* C3: for the ECB versions kef_encrypt returns KEF_ERR_DUPLICATE_BLOCKS and
\* emits no envelope whenever two 16-byte blocks of the padded buffer, at any
\* two positions, are identical, so that no envelope it produces has two
\* equal 16-byte ciphertext blocks.
C3_NoDuplicateBlocks ==
  (kf_phase # "idle" /\ kf_enc.vi.mode = "MODE_ECB") =>
    /\ (\E i, j \in 0..(Len(kf_enc.padded) \div 16 - 1) :
          /\ i # j
          /\ SubSeq(kf_enc.padded, 16 * i + 1, 16 * i + 16)
               = SubSeq(kf_enc.padded, 16 * j + 1, 16 * j + 16))
         => (kf_enc.err = "KEF_ERR_DUPLICATE_BLOCKS" /\ ~kf_enc.out_set
             /\ kf_enc.out = <<>>)
    /\ kf_enc.out_set =>
         \A i, j \in 0..((Len(kf_enc.out) - Len(kf_args.id) - 5
                          - (IF kf_enc.vi.auth_type = "AUTH_EXPOSED"
                             THEN kf_enc.vi.auth_size ELSE 0)) \div 16 - 1) :
            i # j =>
              SubSeq(kf_enc.out, Len(kf_args.id) + 5 + 16 * i + 1,
                     Len(kf_args.id) + 5 + 16 * i + 16)
                # SubSeq(kf_enc.out, Len(kf_args.id) + 5 + 16 * j + 1,
                         Len(kf_args.id) + 5 + 16 * j + 16)

\* An ECB encryption was refused for a padded buffer whose first and third
\* blocks are equal while the second differs
C3_Witness ==
  /\ kf_phase = "refused"
  /\ kf_enc.vi.mode = "MODE_ECB"
  /\ kf_enc.err = "KEF_ERR_DUPLICATE_BLOCKS"
  /\ Len(kf_enc.padded) >= 48
  /\ SubSeq(kf_enc.padded, 1, 16) = SubSeq(kf_enc.padded, 33, 48)
  /\ SubSeq(kf_enc.padded, 1, 16) # SubSeq(kf_enc.padded, 17, 32)

\* C4: on every exit path of kef_encrypt and kef_decrypt each heap buffer
\* that held the derived key, plaintext, padded data, compressed data or an
\* inflate or deflate intermediate, those of the padding and deflate/inflate
\* helpers included, is zeroized before it is freed.
C4_ZeroizedBeforeFree ==
  /\ kf_phase # "idle" =>
       \A i \in 1..Len(kf_enc.frees) : kf_enc.frees[i].zeroized
  /\ kf_phase \in {"decrypted", "decrypted_tampered"} =>
       \A i \in 1..Len(kf_dec.frees) : kf_dec.frees[i].zeroized


\* The number of 0x00 bytes at the end of s
KefTrailingNuls(s) ==
  IF \E k \in 1..Len(s) : s[k] # 0
  THEN Len(s) - (CHOOSE k \in 1..Len(s) : s[k] # 0 /\ \A m \in (k + 1)..Len(s) : s[m] = 0)
  ELSE Len(s)

\* C22: for every NUL-padded version (0 and 1 with hidden auth, 5 and 10 with
\* exposed auth) kef_decrypt authenticates the envelope kef_encrypt returned
\* and recovers the plaintext in its exact length when the plaintext ends in
\* one or more 0x00 bytes, however many there are.  The iteration counts are
\* those the header field holds exactly.
C22_NulRecovery ==
  (/\ kf_phase = "decrypted"
   /\ kf_args.version \in {0, 1, 5, 10}
   /\ kf_args.iterations \in {10000, 10001}
   /\ KefTrailingNuls(kf_args.plaintext) >= 1) =>
     /\ kf_dec.err = "KEF_OK"
     /\ kf_dec.out = kf_args.plaintext
(***************************************************************************)
(* Specification of the header functions of kef.c and of their caller in   *)
(* storage.c: kef_parse_header with version_out and iterations_out NULL or *)
(* not, kef_is_envelope and storage_get_kef_display_name, each on every    *)
(* prefix of envelopes with ids of several lengths, versions in and out of *)
(* the table and up to HdMaxRest bytes after the header.                   *)
(***************************************************************************)
HdMaxRest == 37

HdEnvelopes ==
  UNION {{SubSeq(<<idl>> \o Rep(65, idl) \o <<v, 0, 0, 1>> \o Rep(7, HdMaxRest), 1, n) :
            n \in 0..(idl + 5 + HdMaxRest)} :
           idl \in {0, 1, 2, 255}, v \in {0, 1, 2, 5, 6, 10, 15, 20, 255}}

\* storage_get_kef_display_name: [null, name]; mem is whether malloc returns
\* a buffer
storage_get_kef_display_name(data, mem) ==
  LET h == kef_parse_header(data, FALSE, FALSE)
      copy_len == IF Len(h.id) < 63 THEN Len(h.id) ELSE 63
  IN IF Len(data) = 0 THEN [null |-> TRUE, name |-> <<>>]
     ELSE IF h.err # "KEF_OK" THEN [null |-> TRUE, name |-> <<>>]
     ELSE IF ~mem THEN [null |-> TRUE, name |-> <<>>]
     ELSE [null |-> FALSE, name |-> SubSeq(h.id, 1, copy_len)]

HdIdle ==
  hd = [phase |-> "idle", data |-> <<>>, version_out |-> TRUE,
        iterations_out |-> TRUE,
        res |-> [err |-> "none", id |-> <<>>, version |-> 0, iterations |-> 0],
        is_env |-> FALSE, name |-> [null |-> TRUE, name |-> <<>>],
        password |-> <<>>, dec_err |-> "none"]

\* A call of kef_parse_header
HdParse ==
  /\ hd.phase = "idle"
  /\ \E data \in HdEnvelopes, v \in BOOLEAN, it \in BOOLEAN :
       hd' = [hd EXCEPT !.phase = "parsed", !.data = data, !.version_out = v,
                        !.iterations_out = it,
                        !.res = kef_parse_header(data, v, it)]
  /\ UNCHANGED hd_others

\* A call of kef_is_envelope
HdIsEnvelope ==
  /\ hd.phase = "idle"
  /\ \E data \in HdEnvelopes :
       hd' = [hd EXCEPT !.phase = "checked", !.data = data,
                        !.is_env = kef_is_envelope(data)]
  /\ UNCHANGED hd_others

\* A call of storage_get_kef_display_name
HdDisplayName ==
  /\ hd.phase = "idle"
  /\ \E data \in HdEnvelopes, mem \in BOOLEAN :
       hd' = [hd EXCEPT !.phase = "named", !.data = data,
                        !.version_out = FALSE, !.iterations_out = FALSE,
                        !.name = storage_get_kef_display_name(data, mem)]
  /\ UNCHANGED hd_others

\* A caller asks kef_is_envelope and then hands the data to kef_decrypt, as
\* the loading of a stored mnemonic does
HdDecrypt ==
  /\ hd.phase = "idle"
  /\ \E data \in HdEnvelopes, password \in {<<>>, <<112, 119>>} :
       hd' = [hd EXCEPT !.phase = "decrypted", !.data = data,
                        !.password = password,
                        !.is_env = kef_is_envelope(data),
                        !.dec_err = kef_decrypt(data, password).err]
  /\ UNCHANGED hd_others

HdReset ==
  /\ hd.phase # "idle"
  /\ hd' = [phase |-> "idle", data |-> <<>>, version_out |-> TRUE,
            iterations_out |-> TRUE,
            res |-> [err |-> "none", id |-> <<>>, version |-> 0, iterations |-> 0],
            is_env |-> FALSE, name |-> [null |-> TRUE, name |-> <<>>],
        password |-> <<>>, dec_err |-> "none"]
  /\ UNCHANGED hd_others

\* The header of data is well formed: an id length of 1..255 and the id, the
\* version and the three iteration bytes within the data
HdWellFormed(data) ==
  /\ Len(data) >= 1
  /\ data[1] >= 1
  /\ data[1] <= 255
  /\ Len(data) >= 1 + data[1] + 1 + 3

\* C18: kef_is_envelope(data) is true iff the header parses (id length
\* 1..255, header within the data), the version is one of the table and
\* len(data) >= header + IV + minimum ciphertext (16 for ECB and CBC, 1
\* otherwise) + the exposed auth trailer (the 3 or 4 auth bytes of versions 5
\* and 10, the 4 tag bytes of the GCM versions).  kef_is_envelope calls
\* kef_parse_header and find_version only, so no key is derived and nothing
\* is decrypted on the way.
C18_IsEnvelope ==
  hd.phase = "checked" =>
    LET data == hd.data
        v == data[1 + data[1] + 1]
        header == 1 + data[1] + 1 + 3
        iv == IF v \in {1, 10, 11, 12} THEN 16
              ELSE IF v \in {15, 16, 20, 21} THEN 12 ELSE 0
        cipher == IF v \in {0, 1, 5, 6, 7, 10, 11, 12} THEN 16 ELSE 1
        trailer == IF v = 5 THEN 3 ELSE IF v \in {10, 20, 21} THEN 4 ELSE 0
    IN hd.is_env <=>
         /\ HdWellFormed(data)
         /\ v \in {0, 1, 5, 6, 7, 10, 11, 12, 15, 16, 20, 21}
         /\ Len(data) >= header + iv + cipher + trailer

\* kef_is_envelope accepted a GCM envelope of exactly the least length: the
\* header, 12 bytes of IV, one byte of ciphertext and the 4 bytes of the tag
C18_Witness ==
  /\ hd.phase = "checked"
  /\ hd.is_env
  /\ hd.data[1] = 2
  /\ hd.data[4] = 20
  /\ Len(hd.data) = 7 + 12 + 1 + 4

\* C19: on a well-formed header kef_parse_header returns KEF_OK with the id
\* pointer and the id length, also when version_out or iterations_out, or
\* both, are NULL.
C19_ParseWithNullOuts ==
  (hd.phase = "parsed" /\ HdWellFormed(hd.data)) =>
     /\ hd.res.err = "KEF_OK"
     /\ hd.res.id = SubSeq(hd.data, 2, 1 + hd.data[1])

\* The original C25: data for which kef_is_envelope returns true is never
\* rejected by kef_decrypt for framing reasons (KEF_ERR_INVALID_ARG,
\* KEF_ERR_UNSUPPORTED_VERSION, KEF_ERR_ENVELOPE_TOO_SHORT) when the password
\* is not empty.
C25_NoFramingReject ==
  (hd.phase = "decrypted" /\ hd.is_env /\ hd.password # <<>>) =>
     hd.dec_err \notin {"KEF_ERR_INVALID_ARG", "KEF_ERR_UNSUPPORTED_VERSION",
                        "KEF_ERR_ENVELOPE_TOO_SHORT"}

\* C25: data for which kef_is_envelope returns true is never rejected by
\* kef_decrypt with KEF_ERR_INVALID_ARG or KEF_ERR_UNSUPPORTED_VERSION when
\* the password is not empty, and it is rejected with
\* KEF_ERR_ENVELOPE_TOO_SHORT exactly when the version is an ECB or CBC one
\* and the length of the ciphertext (the data without header, IV and exposed
\* trailer) is not a multiple of 16.
C25_FramingAfterIsEnvelope ==
  (hd.phase = "decrypted" /\ hd.is_env /\ hd.password # <<>>) =>
     LET v == hd.data[1 + hd.data[1] + 1]
         iv == IF v \in {1, 10, 11, 12} THEN 16
               ELSE IF v \in {15, 16, 20, 21} THEN 12 ELSE 0
         trailer == IF v = 5 THEN 3 ELSE IF v \in {10, 20, 21} THEN 4 ELSE 0
         cipher_len == Len(hd.data) - (1 + hd.data[1] + 1 + 3) - iv - trailer
     IN /\ hd.dec_err \notin {"KEF_ERR_INVALID_ARG", "KEF_ERR_UNSUPPORTED_VERSION"}
        /\ hd.dec_err = "KEF_ERR_ENVELOPE_TOO_SHORT"
             <=> (v \in {0, 1, 5, 6, 7, 10, 11, 12} /\ cipher_len % 16 # 0)

\* An ECB envelope of 17 ciphertext bytes passed kef_is_envelope and was
\* refused by kef_decrypt as too short
C25_Witness ==
  /\ hd.phase = "decrypted"
  /\ hd.is_env
  /\ hd.password # <<>>
  /\ hd.data[1] = 1
  /\ hd.data[3] = 0
  /\ Len(hd.data) = 6 + 17
  /\ hd.dec_err = "KEF_ERR_ENVELOPE_TOO_SHORT"

(***************************************************************************)
(* Specification of the iteration field of the KEF header: kef_encrypt     *)
(* writes it with kef_encode_iterations for the count it derived its key   *)
(* with, kef_parse_header reads it with kef_decode_iterations for          *)
(* kef_decrypt.  kef_encrypt accepts every count but 0 (kef.c:379).  The    *)
(* counts are those up to ItSmall and ones around 10000, around the        *)
(* largest scaled count 10000 * 10000 and around 2^24, the first that      *)
(* three bytes do not hold.                                                *)
(***************************************************************************)
ItSmall == 60

ItCounts ==
  (1..ItSmall)
  \cup {9999, 10000, 10001, 19999, 20000, 100000, 600000, 99990000, 100000000,
        100010000, 16777215, 16777216, 16777217, 2147483647}

ItIdle == itr = [phase |-> "idle", n |-> 0, stored |-> <<>>, decoded |-> 0]

\* kef_encrypt writes the field for the count n it was called with
ItEncode ==
  /\ itr.phase = "idle"
  /\ \E n \in ItCounts :
       itr' = [itr EXCEPT !.phase = "encoded", !.n = n,
                        !.stored = kef_encode_iterations(n)]
  /\ UNCHANGED itr_others

\* kef_parse_header reads the field
ItDecode ==
  /\ itr.phase = "encoded"
  /\ itr' = [itr EXCEPT !.phase = "decoded",
                      !.decoded = kef_decode_iterations(itr.stored)]
  /\ UNCHANGED itr_others

ItReset ==
  /\ itr.phase = "decoded"
  /\ itr' = [phase |-> "idle", n |-> 0, stored |-> <<>>, decoded |-> 0]
  /\ UNCHANGED itr_others

\* C21: for every iteration count N >= 1, all of which kef_encrypt accepts,
\* kef_decode_iterations(kef_encode_iterations(N)) = N: kef_decrypt derives
\* its key with the count kef_encrypt used.
C21_IterationsRoundTrip ==
  itr.phase = "decoded" => itr.decoded = itr.n

(***************************************************************************)
(* kef_encrypt_page.c: key entry with confirmation and the encryption in   *)
(* a worker task on the second core.                                       *)
(*                                                                         *)
(* pg holds the statics of the page and the position of the worker:        *)
(*   ui        "entry" (text input shown), "progress", "closed"            *)
(*   worker    "none", or where encrypt_task stands: "created", "kef_encrypt"*)
(*             (inside the call), "stored" (result and envelope assigned), *)
(*             "key_released" (free(encrypt_key_copy) done, pointer not yet*)
(*             NULL), "key_freed", "done" (encrypt_done set), "exited",    *)
(*             or "killed" (deleted by the UI task)                        *)
(* and, as a record of what happened: killed_at (where vTaskDelete caught  *)
(* a live worker), stale_delete (vTaskDelete on a handle whose task had    *)
(* deleted itself), key_frees (free() calls on the current key buffer),    *)
(* cmp (the last confirm comparison), read_at (where the worker stood when *)
(* the poll callback read the result) and delivered (what the success      *)
(* callback received).  A NULL buffer pointer is the empty sequence.       *)
(***************************************************************************)
KEF_ITERATIONS == 100000

PageInit ==
  [ui |-> "closed", confirm_key |-> <<>>, encrypt_key_copy |-> <<>>,
   encrypt_task_handle |-> FALSE, encrypt_poll_timer |-> FALSE,
   encrypt_done |-> FALSE, encrypt_result |-> "KEF_OK",
   encrypt_envelope |-> <<>>, worker |-> "none", worker_result |-> "none",
   killed_at |-> "none", stale_delete |-> FALSE, key_frees |-> 0,
   cmp |-> [ran |-> FALSE, len |-> 0, steps |-> 0],
   read_at |-> "none", delivered |-> <<>>]

\* memcmp of the C library: the sign of the first difference, found by
\* comparing from the front and stopping at the first pair that differs
memcmp(a, b, len) ==
  LET diffs == {i \in 1..len : a[i] # b[i]}
      first == IF diffs = {} THEN len
               ELSE CHOOSE i \in diffs : \A j \in diffs : i <= j
  IN [result |-> IF diffs = {} THEN 0
                 ELSE IF a[first] < b[first] THEN -1 ELSE 1,
      steps |-> first]

\* destroy_overlay.  vTaskDelete stops a worker that is still running where
\* it stands; on the handle of a task that has deleted itself its behaviour
\* is undefined, and crash tells whether the firmware dies there.
destroy_overlay(s, crash) ==
  IF s.encrypt_task_handle /\ s.worker = "exited" /\ crash
  THEN [s EXCEPT !.ui = "crashed", !.stale_delete = TRUE]
  ELSE [s EXCEPT
          !.worker = IF s.encrypt_task_handle /\ @ \notin {"none", "exited"}
                     THEN "killed" ELSE @,
          !.killed_at = IF s.encrypt_task_handle
                           /\ s.worker \notin {"none", "exited", "killed"}
                        THEN s.worker ELSE @,
          !.stale_delete = @ \/ (s.encrypt_task_handle /\ s.worker = "exited"),
          !.encrypt_task_handle = FALSE,
          !.encrypt_poll_timer = FALSE,
          !.encrypt_done = FALSE,
          !.ui = "closed",
          !.key_frees = IF s.encrypt_key_copy # <<>> THEN @ + 1 ELSE @,
          !.encrypt_key_copy = <<>>,
          !.confirm_key = <<>>]

\* create_overlay, as show_password_input calls it
create_overlay(s, crash) ==
  IF destroy_overlay(s, crash).ui = "crashed" THEN destroy_overlay(s, crash)
  ELSE [destroy_overlay(s, crash) EXCEPT !.ui = "entry"]

\* kef_encrypt_page_destroy
kef_encrypt_page_destroy(s, crash) ==
  IF destroy_overlay(s, crash).ui = "crashed" THEN destroy_overlay(s, crash)
  ELSE [destroy_overlay(s, crash) EXCEPT !.encrypt_envelope = <<>>]

\* A variant of encrypt_task that raises encrypt_done on entering kef_encrypt
encrypt_task_done_first(s, r) ==
  IF s.worker = "created"
  THEN [s EXCEPT !.worker = "kef_encrypt", !.encrypt_envelope = <<>>,
                 !.encrypt_done = TRUE]
  ELSE IF s.worker = "kef_encrypt"
  THEN [s EXCEPT !.worker = "stored", !.encrypt_result = r.err,
                 !.worker_result = r.err, !.encrypt_envelope = r.out]
  ELSE IF s.worker = "stored"
  THEN [s EXCEPT !.worker = "key_released", !.key_frees = @ + 1]
  ELSE IF s.worker = "key_released"
  THEN [s EXCEPT !.worker = "key_freed", !.encrypt_key_copy = <<>>]
  ELSE IF s.worker = "key_freed"
  THEN [s EXCEPT !.worker = "done"]
  ELSE [s EXCEPT !.worker = "exited"]

\* encrypt_task: the next step of the worker, r being what kef_encrypt
\* returns.  The key buffer is non-NULL whenever a worker exists.
encrypt_task(s, r) ==
  IF s.worker = "created"
  THEN [s EXCEPT !.worker = "kef_encrypt", !.encrypt_envelope = <<>>]
  ELSE IF s.worker = "kef_encrypt"
  THEN [s EXCEPT !.worker = "stored", !.encrypt_result = r.err,
                 !.worker_result = r.err, !.encrypt_envelope = r.out]
  ELSE IF s.worker = "stored"
  THEN [s EXCEPT !.worker = "key_released", !.key_frees = @ + 1]
  ELSE IF s.worker = "key_released"
  THEN [s EXCEPT !.worker = "key_freed", !.encrypt_key_copy = <<>>]
  ELSE IF s.worker = "key_freed"
  THEN [s EXCEPT !.worker = "done", !.encrypt_done = TRUE]
  ELSE [s EXCEPT !.worker = "exited"]

\* encrypt_poll_timer_cb
encrypt_poll_timer_cb(s, crash) ==
  IF ~s.encrypt_done THEN s
  ELSE IF s.encrypt_result = "KEF_OK"
  THEN [destroy_overlay([s EXCEPT !.encrypt_poll_timer = FALSE,
                                  !.encrypt_task_handle = FALSE,
                                  !.read_at = s.worker], crash)
          EXCEPT !.delivered = <<s.encrypt_envelope>>]
  ELSE [s EXCEPT !.encrypt_poll_timer = FALSE, !.encrypt_task_handle = FALSE,
                 !.read_at = s.worker, !.ui = "entry"]

\* password_ready_cb with the text of the input field; created tells whether
\* xTaskCreatePinnedToCore succeeds
password_ready_cb(s, text, created) ==
  IF text = <<>> THEN s
  ELSE IF s.confirm_key = <<>>
  THEN [s EXCEPT !.confirm_key = text]
  ELSE IF Len(text) # Len(s.confirm_key)
  THEN [s EXCEPT !.confirm_key = <<>>,
                 !.cmp = [ran |-> TRUE, len |-> Len(s.confirm_key), steps |-> 0]]
  ELSE IF memcmp(text, s.confirm_key, Len(text)).result # 0
  THEN [s EXCEPT !.confirm_key = <<>>,
                 !.cmp = [ran |-> TRUE, len |-> Len(s.confirm_key),
                          steps |-> memcmp(text, s.confirm_key, Len(text)).steps]]
  ELSE IF ~created
  THEN [s EXCEPT !.confirm_key = <<>>, !.encrypt_done = FALSE,
                 !.key_frees = 1,
                 !.cmp = [ran |-> TRUE, len |-> Len(s.confirm_key),
                          steps |-> memcmp(text, s.confirm_key, Len(text)).steps]]
  ELSE [s EXCEPT !.confirm_key = <<>>, !.encrypt_key_copy = s.confirm_key,
                 !.key_frees = 0, !.encrypt_done = FALSE, !.ui = "progress",
                 !.encrypt_task_handle = TRUE, !.worker = "created",
                 !.worker_result = "none", !.killed_at = "none",
                 !.read_at = "none", !.encrypt_poll_timer = TRUE,
                 !.cmp = [ran |-> TRUE, len |-> Len(s.confirm_key),
                          steps |-> memcmp(text, s.confirm_key, Len(text)).steps]]

(***************************************************************************)
(* The encrypt page in use: LVGL runs the callbacks of the UI task one at  *)
(* a time, the worker runs on the other core and its steps fall between    *)
(* them in any order.                                                      *)
(***************************************************************************)
\* What the user may type as a key
PgTexts == { <<97, 98>>, <<120, 98>>, <<97, 98, 99>> }

PgIdle == pg = PageInit

\* show_password_input
PgOpen ==
  /\ pg.ui = "closed"
  /\ \E crash \in BOOLEAN : pg' = create_overlay(pg, crash)
  /\ UNCHANGED pg_others

PgPasswordReady ==
  /\ pg.ui = "entry"
  /\ \E text \in PgTexts, created \in BOOLEAN :
       pg' = password_ready_cb(pg, text, created)
  /\ UNCHANGED pg_others

\* cancel_cb: the back button of the overlay
PgCancel ==
  /\ pg.ui \in {"entry", "progress"}
  /\ \E crash \in BOOLEAN : pg' = destroy_overlay(pg, crash)
  /\ UNCHANGED pg_others

\* The owner of the page tears it down
PgDestroy ==
  /\ pg.ui # "crashed"
  /\ \E crash \in BOOLEAN : pg' = kef_encrypt_page_destroy(pg, crash)
  /\ UNCHANGED pg_others

\* The 100 ms LVGL timer fires
PgPoll ==
  /\ pg.ui # "crashed"
  /\ pg.encrypt_poll_timer
  /\ \E crash \in BOOLEAN : pg' = encrypt_poll_timer_cb(pg, crash)
  /\ UNCHANGED pg_others

\* The worker takes its next step; kef_encrypt may also run out of memory
PgWorker ==
  /\ pg.ui # "crashed"
  /\ pg.worker \in {"created", "kef_encrypt", "stored", "key_released",
                    "key_freed", "done"}
  /\ \E rnd \in KefIvs :
       \E r \in {kef_encrypt(<<102, 112>>, 20, pg.encrypt_key_copy, KEF_ITERATIONS,
                             <<1, 2, 3>>, rnd),
                 KefReturn("KEF_ERR_ALLOC")} :
          pg' = encrypt_task(pg, r)
  /\ UNCHANGED pg_others

(***************************************************************************)
(* Claims about the encrypt page.                                          *)
(***************************************************************************)
\* C5: when the user cancels or the overlay is destroyed while the worker is
\* still inside kef_encrypt, the worker is never terminated mid-operation:
\* the caller waits for the operation to complete before it discards the key
\* and the result.
C5_WorkerNotKilledInKefEncrypt == pg.killed_at # "kef_encrypt"

\* C6: encrypt_done is set only after kef_encrypt has returned and its
\* result code and envelope have been stored, and the poll callback reads
\* the result and the envelope only after it has seen encrypt_done true.
C6_DoneAfterStore ==
  /\ pg.encrypt_done =>
       /\ pg.worker \in {"done", "exited"}
       /\ pg.encrypt_result = pg.worker_result
       /\ pg.encrypt_result = "KEF_OK" => pg.encrypt_envelope # <<>>
  /\ pg.read_at \in {"none", "done", "exited"}
  /\ pg.delivered # <<>> => pg.delivered[1] # <<>>

\* The poll callback handed the envelope over after seeing the flag, the
\* worker not yet having deleted itself
C6_Witness ==
  /\ pg.read_at = "done"
  /\ pg.delivered # <<>>
  /\ pg.worker_result = "KEF_OK"

\* C7: the confirm-key comparison, like every equality test on secret
\* content, runs over the full declared length and takes the same number of
\* steps wherever the two buffers differ.
C7_ConstantTimeCompare == pg.cmp.ran => pg.cmp.steps = pg.cmp.len


\* C23: in every interleaving of the worker's completion with cancel_cb or
\* the destruction of the overlay on the UI task, the key buffer
\* encrypt_key_copy is zeroized and freed exactly once (never twice, and once
\* when the pointer is NULL again after a worker was started), and it is not
\* freed while the worker is inside kef_encrypt.
C23_KeyFreedOnce ==
  /\ pg.key_frees <= 1
  /\ (pg.worker # "none" /\ pg.encrypt_key_copy = <<>>) => pg.key_frees = 1
  /\ pg.worker = "kef_encrypt" => pg.key_frees = 0

\* C24: vTaskDelete is never called on the handle of a worker that has
\* finished and deleted itself: whenever destroy_overlay runs with
\* encrypt_task_handle not NULL, the task is alive.
C24_NoStaleTaskDelete == ~pg.stale_delete
(***************************************************************************)
(* base43.c: the Base43 encoder.  Strings are sequences of ASCII codes.    *)
(***************************************************************************)
B43_BASE == 43

\* "0123456789ABCDEFGHIJKLMNOPQRSTUVWXYZ$*+-./:"
B43CHARS ==
  [i \in 1..43 |-> IF i <= 10 THEN 47 + i
                   ELSE IF i <= 36 THEN 54 + i
                   ELSE <<36, 42, 43, 45, 46, 47, 58>>[i - 36]]

\* The for loop of base43_encode over num[i .. num_len - 1]: st = [num,
\* remainder], num being the quotient bytes written so far (write_pos of
\* them)
RECURSIVE base43_divide(_, _, _)
base43_divide(num, i, st) ==
  IF i >= Len(num) THEN st
  ELSE LET val == st.remainder * 256 + num[i + 1]
           quot == (val \div B43_BASE) % 256
       IN base43_divide(num, i + 1,
            [num |-> IF Len(st.num) > 0 \/ quot > 0 THEN Append(st.num, quot)
                     ELSE st.num,
             remainder |-> val % B43_BASE])

\* The while loop of base43_encode: [ok, buf], the digits in reverse order
RECURSIVE base43_digits(_, _, _)
base43_digits(num, buf, buf_cap) ==
  IF Len(num) = 0 THEN [ok |-> TRUE, buf |-> buf]
  ELSE LET d == base43_divide(num, 0, [num |-> <<>>, remainder |-> 0])
       IN IF Len(buf) >= buf_cap THEN [ok |-> FALSE, buf |-> <<>>]
          ELSE base43_digits(d.num, Append(buf, B43CHARS[d.remainder + 1]), buf_cap)

\* base43_encode: [ok, out]; malloc succeeds
base43_encode(data) ==
  LET r == base43_digits(data, <<>>, Len(data) * 2 + 1)
      n_pad == CHOOSE k \in 0..Len(data) :
                 /\ \A i \in 1..k : data[i] = 0
                 /\ k = Len(data) \/ data[k + 1] # 0
  IN IF Len(data) = 0 THEN [ok |-> TRUE, out |-> <<>>]
     ELSE IF ~r.ok THEN [ok |-> FALSE, out |-> <<>>]
     ELSE [ok |-> TRUE,
           out |-> [i \in 1..(n_pad + Len(r.buf)) |->
                      IF i <= n_pad THEN B43CHARS[1]
                      ELSE r.buf[Len(r.buf) - (i - n_pad) + 1]]]

(***************************************************************************)
(* Specification of Base43: byte strings are encoded.                      *)
(***************************************************************************)
MaxB43Len == 4

B43Idle == b43 = [phase |-> "idle", data |-> <<>>, res |-> [ok |-> FALSE, out |-> <<>>]]

\* base43_encode(data, data_len, &out, &out_len)
B43Encode ==
  /\ b43.phase = "idle"
  /\ \E data \in SeqsUpTo({0, 1, 43, 255}, MaxB43Len) :
       b43' = [phase |-> "encoded", data |-> data, res |-> base43_encode(data)]
  /\ UNCHANGED b43_others

B43Reset ==
  /\ b43.phase = "encoded"
  /\ b43' = [phase |-> "idle", data |-> <<>>, res |-> [ok |-> FALSE, out |-> <<>>]]
  /\ UNCHANGED b43_others

\* C16: base43_encode succeeds, and its output begins with exactly as many
\* '0' characters as its input begins with 0x00 bytes, whether or not the
\* input has any other byte.
C16_LeadingZeros ==
  b43.phase = "encoded" =>
    /\ b43.res.ok
    /\ \E k \in 0..Len(b43.data) :
         /\ \A i \in 1..k : b43.data[i] = 0
         /\ k = Len(b43.data) \/ b43.data[k + 1] # 0
         /\ Len(b43.res.out) >= k
         /\ \A i \in 1..k : b43.res.out[i] = 48
         /\ Len(b43.res.out) = k \/ b43.res.out[k + 1] # 48

(***************************************************************************)
(* storage.c: storage_sanitize_id.  Strings are sequences of character     *)
(* codes without the terminating NUL.                                      *)
(***************************************************************************)
STORAGE_MAX_SANITIZED_ID_LEN == 24

\* The characters the loop replaces: \ / : * ? " < > | and the space
SnUnsafe == {92, 47, 58, 42, 63, 34, 60, 62, 124, 32}

\* The loop over p from index i (from 0): [out, last_underscore] when it ends
RECURSIVE sanitize_loop(_, _, _, _, _)
sanitize_loop(p, i, max_len, out, last_underscore) ==
  IF i >= Len(p) \/ Len(out) >= max_len THEN out
  ELSE IF p[i + 1] \in SnUnsafe
  THEN IF ~last_underscore
       THEN sanitize_loop(p, i + 1, max_len, Append(out, 95), TRUE)
       ELSE sanitize_loop(p, i + 1, max_len, out, last_underscore)
  ELSE sanitize_loop(p, i + 1, max_len, Append(out, p[i + 1]), FALSE)

\* The two characters "%02X" prints for a byte
SnHex(b) ==
  LET digit(n) == IF n < 10 THEN 48 + n ELSE 55 + n
  IN <<digit(b \div 16), digit(b % 16)>>

\* storage_sanitize_id: the string in out when it returns, for raw_id and out
\* not NULL; with out_size = 0 nothing is written (the empty sequence here)
storage_sanitize_id(raw_id, out_size) ==
  LET lead == IF \E k \in 1..Len(raw_id) : raw_id[k] \notin {32, 9, 46}
              THEN (CHOOSE k \in 1..Len(raw_id) :
                      /\ raw_id[k] \notin {32, 9, 46}
                      /\ \A m \in 1..(k - 1) : raw_id[m] \in {32, 9, 46}) - 1
              ELSE Len(raw_id)
      p == SubSeq(raw_id, lead + 1, Len(raw_id))
      max_len == IF out_size - 1 > STORAGE_MAX_SANITIZED_ID_LEN
                 THEN STORAGE_MAX_SANITIZED_ID_LEN ELSE out_size - 1
      filled == sanitize_loop(p, 0, max_len, <<>>, FALSE)
      j == IF \E k \in 1..Len(filled) : filled[k] \notin {95, 46}
           THEN CHOOSE k \in 1..Len(filled) :
                  /\ filled[k] \notin {95, 46}
                  /\ \A m \in (k + 1)..Len(filled) : filled[m] \in {95, 46}
           ELSE 0
      hash == crypto_sha256(raw_id)
      hex(i) == IF i < 4 /\ (i * 2 + 1) < max_len THEN SnHex(hash[i + 1]) ELSE <<>>
  IN IF out_size = 0 THEN <<>>
     ELSE IF j > 0 THEN SubSeq(filled, 1, j)
     ELSE hex(0) \o hex(1) \o hex(2) \o hex(3)

(***************************************************************************)
(* Specification of storage_sanitize_id: one call on a raw id of up to     *)
(* MaxSnLen characters (a letter, an underscore, a dot, a space, a tab and *)
(* a slash), or on a long one that the limit of 24 characters cuts, with   *)
(* buffers of several sizes.                                               *)
(***************************************************************************)
MaxSnLen == 4

SnRawIds ==
  SeqsUpTo({97, 95, 46, 32, 9, 47}, MaxSnLen)
  \cup {Periodic(u, n) : u \in {<<97>>, <<97, 95, 95>>, <<97, 32, 47>>, <<97, 46>>},
                         n \in {23, 24, 25, 26}}

SnIdle == sn = [phase |-> "idle", raw_id |-> <<>>, out_size |-> 0, out |-> <<>>]

\* A call of storage_sanitize_id
SnSanitize ==
  /\ sn.phase = "idle"
  /\ \E raw_id \in SnRawIds, out_size \in {0, 1, 2, 4, 9, 25, 64} :
       sn' = [phase |-> "done", raw_id |-> raw_id, out_size |-> out_size,
              out |-> storage_sanitize_id(raw_id, out_size)]
  /\ UNCHANGED sn_others

SnReset ==
  /\ sn.phase = "done"
  /\ sn' = [phase |-> "idle", raw_id |-> <<>>, out_size |-> 0, out |-> <<>>]
  /\ UNCHANGED sn_others

\* C20: for every raw id the output of storage_sanitize_id holds no two
\* consecutive '_' characters, whether they stand for replaced unsafe
\* characters or were in the input already.
C20_NoUnderscoreRuns ==
  sn.phase = "done" =>
    \A i \in 1..(Len(sn.out) - 1) : ~(sn.out[i] = 95 /\ sn.out[i + 1] = 95)

(***************************************************************************)
(* encoder.c: SeedQR and Compact SeedQR.  Strings are sequences of         *)
(* character codes.                                                        *)
(*                                                                         *)
(* libwally's BIP-39 is not part of this source tree; it is modelled from  *)
(* BIP-39 itself: 2048 distinct words without spaces, a mnemonic being the *)
(* words of the 11-bit groups of the entropy followed by the first         *)
(* len / 4 bits of its SHA-256, for entropies of 16, 20, 24, 28 and 32     *)
(* bytes, separated by single spaces.                                      *)
(***************************************************************************)
COMPACT_SEEDQR_12_WORDS_LEN == 16
COMPACT_SEEDQR_24_WORDS_LEN == 32
SEEDQR_12_WORDS_LEN == 48
SEEDQR_24_WORDS_LEN == 96

\* bip39_get_word_by_index: three letters a..p spelling the index in base 16
bip39_get_word_by_index(i) ==
  <<97 + (i \div 256), 97 + ((i \div 16) % 16), 97 + (i % 16)>>

\* The index of a word in the list as the search through its 2048 words
\* finds it, -1 for a string that is not in the list
bip39_word_index(w) ==
  IF Len(w) = 3 /\ \A k \in 1..3 : w[k] \in 97..112
  THEN (w[1] - 97) * 256 + (w[2] - 97) * 16 + (w[3] - 97)
  ELSE -1

\* The pieces of str between its spaces, empty ones included
bip39_split(str) ==
  LET sp == {p \in 1..Len(str) : str[p] = 32}
      at == [k \in 0..(Cardinality(sp) + 1) |->
               IF k = 0 THEN 0
               ELSE IF k = Cardinality(sp) + 1 THEN Len(str) + 1
               ELSE CHOOSE p \in sp : Cardinality({q \in sp : q <= p}) = k]
  IN [k \in 1..(Cardinality(sp) + 1) |-> SubSeq(str, at[k - 1] + 1, at[k] - 1)]

\* The words (of three letters) separated by single spaces
bip39_join(words) ==
  [p \in 1..(4 * Len(words) - 1) |->
     IF p % 4 = 0 THEN 32 ELSE words[(p - 1) \div 4 + 1][((p - 1) % 4) + 1]]

\* bip39_mnemonic_from_bytes: the mnemonic of the entropy `bytes`
bip39_mnemonic_from_bytes(bytes) ==
  LET cs == Len(bytes) \div 4
      sum == (crypto_sha256(bytes)[1] \div (2 ^ (8 - cs))) * (2 ^ (8 - cs))
      ext == bytes \o <<sum, 0, 0>>
      index(k) ==
        ((ext[(11 * k) \div 8 + 1] * 65536 + ext[(11 * k) \div 8 + 2] * 256
            + ext[(11 * k) \div 8 + 3])
         \div (2 ^ (13 - ((11 * k) % 8)))) % 2048
  IN bip39_join([k \in 1..((3 * Len(bytes)) \div 4) |->
                   bip39_get_word_by_index(index(k - 1))])

\* bip39_mnemonic_to_bytes: [ok, bytes]; it fails on a piece that is not a
\* word, on a word count that is not 12, 15, 18, 21 or 24 and on a checksum
\* that is not the one of the entropy
bip39_mnemonic_to_bytes(mnemonic) ==
  LET w == bip39_split(mnemonic)
      idx == [k \in 1..(Len(w) + 1) |->
                IF k > Len(w) THEN 0 ELSE bip39_word_index(w[k])]
      bytes == [j \in 1..((4 * Len(w)) \div 3) |->
                  ((idx[(8 * (j - 1)) \div 11 + 1] * 2048
                      + idx[(8 * (j - 1)) \div 11 + 2])
                   \div (2 ^ (14 - ((8 * (j - 1)) % 11)))) % 256]
  IN IF Len(w) \notin {12, 15, 18, 21, 24}
        \/ \E k \in 1..Len(w) : bip39_word_index(w[k]) < 0
     THEN [ok |-> FALSE, bytes |-> <<>>]
     ELSE IF bip39_mnemonic_from_bytes(bytes) # mnemonic
     THEN [ok |-> FALSE, bytes |-> <<>>]
     ELSE [ok |-> TRUE, bytes |-> bytes]

bip39_mnemonic_validate(mnemonic) == bip39_mnemonic_to_bytes(mnemonic).ok

is_all_digits(data) == \A i \in 1..Len(data) : data[i] \in 48..57

\* A variant of mnemonic_qr_compact_to_mnemonic that takes 16 bytes only
mnemonic_qr_compact_to_mnemonic_12_only(data) ==
  IF Len(data) # COMPACT_SEEDQR_12_WORDS_LEN
  THEN [ok |-> FALSE, out |-> <<>>]
  ELSE IF ~bip39_mnemonic_validate(bip39_mnemonic_from_bytes(data))
  THEN [ok |-> FALSE, out |-> <<>>]
  ELSE [ok |-> TRUE, out |-> bip39_mnemonic_from_bytes(data)]

\* mnemonic_qr_compact_to_mnemonic: [ok, out], ok = FALSE for NULL
mnemonic_qr_compact_to_mnemonic(data) ==
  IF Len(data) # COMPACT_SEEDQR_12_WORDS_LEN /\ Len(data) # COMPACT_SEEDQR_24_WORDS_LEN
  THEN [ok |-> FALSE, out |-> <<>>]
  ELSE IF ~bip39_mnemonic_validate(bip39_mnemonic_from_bytes(data))
  THEN [ok |-> FALSE, out |-> <<>>]
  ELSE [ok |-> TRUE, out |-> bip39_mnemonic_from_bytes(data)]

\* mnemonic_qr_seedqr_to_mnemonic: [ok, out].  atoi of four digits is their
\* decimal value; with words of at most 8 letters the buffer of 12 bytes a
\* word is never short.
mnemonic_qr_seedqr_to_mnemonic(data) ==
  LET word_count == IF Len(data) = SEEDQR_12_WORDS_LEN THEN 12 ELSE 24
      word_index(i) == (data[4 * i + 1] - 48) * 1000 + (data[4 * i + 2] - 48) * 100
                       + (data[4 * i + 3] - 48) * 10 + (data[4 * i + 4] - 48)
      mnemonic == bip39_join([k \in 1..word_count |->
                                bip39_get_word_by_index(word_index(k - 1))])
  IN IF (Len(data) # SEEDQR_12_WORDS_LEN /\ Len(data) # SEEDQR_24_WORDS_LEN)
        \/ ~is_all_digits(data)
     THEN [ok |-> FALSE, out |-> <<>>]
     ELSE IF \E i \in 0..(word_count - 1) : word_index(i) > 2047
     THEN [ok |-> FALSE, out |-> <<>>]
     ELSE IF ~bip39_mnemonic_validate(mnemonic)
     THEN [ok |-> FALSE, out |-> <<>>]
     ELSE [ok |-> TRUE, out |-> mnemonic]

\* A variant of mnemonic_to_seedqr without the test on the word count
mnemonic_to_seedqr_any_count(mnemonic) ==
  LET all == bip39_split(mnemonic)
      words == SelectSeq(all, LAMBDA w : w # <<>>)
      word_index(k) == bip39_word_index(words[k])
  IN IF ~bip39_mnemonic_validate(mnemonic)
     THEN [ok |-> FALSE, out |-> <<>>]
     ELSE [ok |-> TRUE,
           out |-> [p \in 1..(4 * Len(words)) |->
                      48 + ((word_index((p - 1) \div 4 + 1)
                                \div (10 ^ (3 - ((p - 1) % 4)))) % 10)]]

\* mnemonic_to_seedqr: [ok, out].  The words are the runs of characters other
\* than a space; each is looked up in the word list and written as "%04zu".
mnemonic_to_seedqr(mnemonic) ==
  LET all == bip39_split(mnemonic)
      words == SelectSeq(all, LAMBDA w : w # <<>>)
      word_index(k) == bip39_word_index(words[k])
  IN IF ~bip39_mnemonic_validate(mnemonic)
     THEN [ok |-> FALSE, out |-> <<>>]
     ELSE IF Len(words) # 12 /\ Len(words) # 24
     THEN [ok |-> FALSE, out |-> <<>>]
     ELSE IF \E k \in 1..Len(words) :
               Len(words[k]) >= 16 \/ bip39_word_index(words[k]) < 0
     THEN [ok |-> FALSE, out |-> <<>>]
     ELSE [ok |-> TRUE,
           out |-> [p \in 1..(4 * Len(words)) |->
                      48 + ((word_index((p - 1) \div 4 + 1)
                                \div (10 ^ (3 - ((p - 1) % 4)))) % 10)]]

\* mnemonic_to_compact_seedqr: [ok, out]
mnemonic_to_compact_seedqr(mnemonic) ==
  LET entropy == bip39_mnemonic_to_bytes(mnemonic)
  IN IF ~entropy.ok THEN [ok |-> FALSE, out |-> <<>>]
     ELSE IF Len(entropy.bytes) # COMPACT_SEEDQR_12_WORDS_LEN
             /\ Len(entropy.bytes) # COMPACT_SEEDQR_24_WORDS_LEN
     THEN [ok |-> FALSE, out |-> <<>>]
     ELSE [ok |-> TRUE, out |-> entropy.bytes]

(***************************************************************************)
(* Specification of the mnemonic QR codes: a mnemonic is written as a      *)
(* SeedQR or as a Compact SeedQR, and what was written is read back.       *)
(***************************************************************************)
MnSeeds == 4

\* Entropies of every BIP-39 length, all-zero and all-one ones included
MnEntropies ==
  UNION {{[i \in 1..len |-> (s * i * 37 + s * s * 5) % 256] : s \in 0..MnSeeds}
         \cup {Rep(255, len)} : len \in {16, 20, 24, 28, 32}}

\* Their mnemonics, and each of these with another last letter and with a
\* second space between the first two words
MnMnemonics ==
  LET good == {bip39_mnemonic_from_bytes(e) : e \in MnEntropies}
  IN good
     \cup {[m EXCEPT ![Len(m)] = 97 + ((@ - 96) % 16)] : m \in good}
     \cup {SubSeq(m, 1, 4) \o <<32>> \o SubSeq(m, 5, Len(m)) : m \in good}

MnIdle ==
  mn = [phase |-> "idle", m |-> <<>>, valid |-> FALSE, words |-> 0,
        format |-> "none", enc |-> [ok |-> FALSE, out |-> <<>>],
        dec |-> [ok |-> FALSE, out |-> <<>>]]

\* mnemonic_to_seedqr(m)
MnToSeedqr ==
  /\ mn.phase = "idle"
  /\ \E m \in MnMnemonics :
       mn' = [mn EXCEPT !.phase = "encoded", !.m = m, !.format = "seedqr",
                !.valid = bip39_mnemonic_validate(m),
                !.words = Len(bip39_split(m)),
                !.enc = mnemonic_to_seedqr(m)]
  /\ UNCHANGED mn_others

\* mnemonic_to_compact_seedqr(m, &out_len)
MnToCompact ==
  /\ mn.phase = "idle"
  /\ \E m \in MnMnemonics :
       mn' = [mn EXCEPT !.phase = "encoded", !.m = m, !.format = "compact",
                !.valid = bip39_mnemonic_validate(m),
                !.words = Len(bip39_split(m)),
                !.enc = mnemonic_to_compact_seedqr(m)]
  /\ UNCHANGED mn_others

\* mnemonic_qr_seedqr_to_mnemonic on the digits written
MnFromSeedqr ==
  /\ mn.phase = "encoded"
  /\ mn.format = "seedqr"
  /\ mn.enc.ok
  /\ mn' = [mn EXCEPT !.phase = "decoded",
              !.dec = mnemonic_qr_seedqr_to_mnemonic(mn.enc.out)]
  /\ UNCHANGED mn_others

\* mnemonic_qr_compact_to_mnemonic on the bytes written
MnFromCompact ==
  /\ mn.phase = "encoded"
  /\ mn.format = "compact"
  /\ mn.enc.ok
  /\ mn' = [mn EXCEPT !.phase = "decoded",
              !.dec = mnemonic_qr_compact_to_mnemonic(mn.enc.out)]
  /\ UNCHANGED mn_others

MnReset ==
  /\ mn.phase \in {"encoded", "decoded"}
  /\ mn' = [phase |-> "idle", m |-> <<>>, valid |-> FALSE, words |-> 0,
            format |-> "none", enc |-> [ok |-> FALSE, out |-> <<>>],
            dec |-> [ok |-> FALSE, out |-> <<>>]]
  /\ UNCHANGED mn_others

\* C12 as stated: for every mnemonic with a valid checksum, whatever its word
\* count, mnemonic_to_seedqr succeeds and mnemonic_qr_seedqr_to_mnemonic
\* returns the mnemonic from its output.
C12_SeedqrRoundTripAnyCount ==
  (mn.format = "seedqr" /\ mn.valid) =>
    /\ mn.phase = "encoded" => mn.enc.ok
    /\ mn.phase = "decoded" => mn.dec.ok /\ mn.dec.out = mn.m

\* C12: for every valid mnemonic of 12 or 24 words mnemonic_to_seedqr
\* succeeds and mnemonic_qr_seedqr_to_mnemonic returns the mnemonic from its
\* output; for a valid mnemonic of 15, 18 or 21 words mnemonic_to_seedqr
\* returns NULL.
C12_SeedqrRoundTrip ==
  (mn.format = "seedqr" /\ mn.valid) =>
    /\ mn.phase = "encoded" => (mn.enc.ok <=> mn.words \in {12, 24})
    /\ mn.phase = "decoded" => mn.dec.ok /\ mn.dec.out = mn.m

\* C12 witness: a valid mnemonic of 24 words, not the one of the all-zero
\* entropy, came back from its 96 digits
C12_Witness ==
  /\ mn.phase = "decoded"
  /\ mn.format = "seedqr"
  /\ mn.valid
  /\ mn.words = 24
  /\ Len(mn.enc.out) = SEEDQR_24_WORDS_LEN
  /\ \E i \in 1..Len(mn.enc.out) : mn.enc.out[i] # 48
  /\ mn.dec.out = mn.m

\* C13: for every valid mnemonic of 12 or 24 words
\* mnemonic_to_compact_seedqr succeeds and mnemonic_qr_compact_to_mnemonic
\* returns the mnemonic from its output.
C13_CompactRoundTrip ==
  (mn.format = "compact" /\ mn.valid /\ mn.words \in {12, 24}) =>
    /\ mn.phase = "encoded" => mn.enc.ok
    /\ mn.phase = "decoded" => mn.dec.ok /\ mn.dec.out = mn.m

\* C13 witness: a valid mnemonic of 24 words came back from its 32 bytes of
\* entropy, which are not all equal
C13_Witness ==
  /\ mn.phase = "decoded"
  /\ mn.format = "compact"
  /\ mn.valid
  /\ mn.words = 24
  /\ Len(mn.enc.out) = COMPACT_SEEDQR_24_WORDS_LEN
  /\ \E i \in 1..Len(mn.enc.out) : mn.enc.out[i] # mn.enc.out[1]
  /\ mn.dec.out = mn.m


(***************************************************************************)
(* encoder.c: detection of the format of a scanned mnemonic QR code.  The  *)
(* character classes are those of <ctype.h> in the "C" locale.             *)
(***************************************************************************)
isdigit(c) == c \in 48..57
isalpha(c) == c \in (65..90) \cup (97..122)
isprint(c) == c \in 32..126
isspace(c) == c \in (9..13) \cup {32}

\* looks_like_plaintext without the test for non-printable bytes
looks_like_plaintext_any_byte(data) ==
  /\ \E i \in 1..Len(data) : data[i] = 32
  /\ \E i \in 1..Len(data) : isalpha(data[i])

\* looks_like_plaintext: the loop returns false at the first byte that is no
\* space, no letter and not printable; after it, has_space && has_letter
looks_like_plaintext(data) ==
  IF \E i \in 1..Len(data) :
       data[i] # 32 /\ ~isalpha(data[i]) /\ ~isprint(data[i])
  THEN FALSE
  ELSE /\ \E i \in 1..Len(data) : data[i] = 32
       /\ \E i \in 1..Len(data) : isalpha(data[i])

has_non_printable(data) ==
  \E i \in 1..Len(data) : ~isprint(data[i]) /\ ~isspace(data[i])

\* mnemonic_qr_detect_format(data, len) for data # NULL
mnemonic_qr_detect_format(data) ==
  IF Len(data) = 0 THEN "MNEMONIC_QR_UNKNOWN"
  ELSE IF (Len(data) = COMPACT_SEEDQR_12_WORDS_LEN
           \/ Len(data) = COMPACT_SEEDQR_24_WORDS_LEN)
          /\ has_non_printable(data)
  THEN "MNEMONIC_QR_COMPACT"
  ELSE IF (Len(data) = SEEDQR_12_WORDS_LEN \/ Len(data) = SEEDQR_24_WORDS_LEN)
          /\ is_all_digits(data)
  THEN "MNEMONIC_QR_SEEDQR"
  ELSE IF looks_like_plaintext(data) THEN "MNEMONIC_QR_PLAINTEXT"
  ELSE IF Len(data) = COMPACT_SEEDQR_12_WORDS_LEN
          \/ Len(data) = COMPACT_SEEDQR_24_WORDS_LEN
  THEN "MNEMONIC_QR_COMPACT"
  ELSE "MNEMONIC_QR_UNKNOWN"

\* mnemonic_qr_to_mnemonic(data, len, &format_out) for data # NULL:
\* [ok, out, format], ok = FALSE for NULL
mnemonic_qr_to_mnemonic(data) ==
  LET format == mnemonic_qr_detect_format(data)
      r == IF Len(data) = 0 THEN [ok |-> FALSE, out |-> <<>>]
           ELSE IF format = "MNEMONIC_QR_COMPACT"
           THEN mnemonic_qr_compact_to_mnemonic(data)
           ELSE IF format = "MNEMONIC_QR_SEEDQR"
           THEN mnemonic_qr_seedqr_to_mnemonic(data)
           ELSE IF format = "MNEMONIC_QR_PLAINTEXT"
           THEN IF bip39_mnemonic_validate(data) THEN [ok |-> TRUE, out |-> data]
                ELSE [ok |-> FALSE, out |-> <<>>]
           ELSE [ok |-> FALSE, out |-> <<>>]
  IN [ok |-> r.ok, out |-> r.out, format |-> format]

(***************************************************************************)
(* Specification of the format detection: a scanned buffer is classified,  *)
(* and the Compact SeedQR written for a mnemonic is read back through the  *)
(* auto-detecting mnemonic_qr_to_mnemonic.                                 *)
(***************************************************************************)
\* Bytes of every character class: NUL, tab, space, '!', a digit, letters of
\* both cases, '~', DEL and a byte above 127
FmBytes == {0, 9, 32, 33, 48, 57, 65, 122, 126, 127, 200}

FmLens == {0, 1, 2, 15, 16, 17, 32, 33, 47, 48, 49, 96}

\* Buffers of one repeated byte with the first and the last byte replaced
FmBuffers ==
  UNION {{[i \in 1..n |-> IF i = 1 THEN a ELSE IF i = n THEN c ELSE b] :
            a \in FmBytes, b \in FmBytes, c \in {32, 48, 65, 127}} : n \in FmLens}

\* Entropies of 16 and 32 bytes: those of the mnemonic specification, text
\* with spaces and letters, text with letters only, digits
FmEntropies ==
  {e \in MnEntropies : Len(e) \in {16, 32}}
  \cup UNION {{Periodic(p, n) : p \in {<<97, 32>>, <<115, 101, 101, 100, 32, 49>>,
                                       <<97>>, <<32>>, <<48>>, <<97, 9>>}} :
              n \in {16, 32}}

\* Their mnemonics, of 12 and 24 words
FmMnemonics == {bip39_mnemonic_from_bytes(e) : e \in FmEntropies}

FmIdle ==
  fm = [phase |-> "idle", data |-> <<>>, format |-> "none", m |-> <<>>,
        dec |-> [ok |-> FALSE, out |-> <<>>]]

\* mnemonic_qr_detect_format(data, len)
FmDetect ==
  /\ fm.phase = "idle"
  /\ \E data \in FmBuffers :
       fm' = [fm EXCEPT !.phase = "detected", !.data = data,
                !.format = mnemonic_qr_detect_format(data)]
  /\ UNCHANGED fm_others

\* mnemonic_to_compact_seedqr(m, &len) for a valid mnemonic m, then
\* mnemonic_qr_to_mnemonic(data, len, &format) on the bytes written
FmRoundTrip ==
  /\ fm.phase = "idle"
  /\ \E m \in FmMnemonics :
       \E enc \in {mnemonic_to_compact_seedqr(m)} :
         /\ enc.ok
         /\ \E r \in {mnemonic_qr_to_mnemonic(enc.out)} :
              fm' = [phase |-> "read", data |-> enc.out, format |-> r.format,
                     m |-> m, dec |-> [ok |-> r.ok, out |-> r.out]]
  /\ UNCHANGED fm_others

FmReset ==
  /\ fm.phase \in {"detected", "read"}
  /\ fm' = [phase |-> "idle", data |-> <<>>, format |-> "none", m |-> <<>>,
            dec |-> [ok |-> FALSE, out |-> <<>>]]
  /\ UNCHANGED fm_others

\* The rules of the detection, first match wins
FmRules(data) ==
  LET n == Len(data)
      non_printable == \E i \in 1..n : ~isprint(data[i])
  IN IF n \in {16, 32} /\ non_printable THEN "MNEMONIC_QR_COMPACT"
     ELSE IF n \in {48, 96} /\ \A i \in 1..n : data[i] \in 48..57
     THEN "MNEMONIC_QR_SEEDQR"
     ELSE IF /\ \E i \in 1..n : data[i] = 32
             /\ \E i \in 1..n : data[i] \in (65..90) \cup (97..122)
             /\ ~non_printable
     THEN "MNEMONIC_QR_PLAINTEXT"
     ELSE IF n \in {16, 32} THEN "MNEMONIC_QR_COMPACT"
     ELSE "MNEMONIC_QR_UNKNOWN"

\* C28: mnemonic_qr_detect_format applies its rules in this order: COMPACT
\* if the length is 16 or 32 and some byte is non-printable; else SEEDQR if
\* the length is 48 or 96 and every byte is an ASCII digit; else PLAINTEXT if
\* the buffer has a space, at least one ASCII letter and no non-printable
\* byte; else COMPACT if the length is 16 or 32; else UNKNOWN.
C28_DetectOrder ==
  fm.phase = "detected" => fm.format = FmRules(fm.data)

\* C28 witness: a buffer of 16 printable bytes with a space and a letter is
\* PLAINTEXT, not COMPACT
C28_Witness ==
  /\ fm.phase = "detected"
  /\ Len(fm.data) = COMPACT_SEEDQR_12_WORDS_LEN
  /\ fm.data[1] = 65
  /\ fm.data[16] = 32
  /\ \A i \in 1..16 : isprint(fm.data[i])
  /\ fm.format = "MNEMONIC_QR_PLAINTEXT"

\* C29: for every valid 12- or 24-word mnemonic M, passing the bytes
\* produced by mnemonic_to_compact_seedqr(M) to the auto-detecting
\* mnemonic_qr_to_mnemonic returns M.
C29_AutoDetectRoundTrip ==
  fm.phase = "read" => fm.dec.ok /\ fm.dec.out = fm.m
(***************************************************************************)
(* Specifications: one per subsystem, the others idle.                     *)
(***************************************************************************)
InitAll ==
  /\ DfIdle /\ BqIdle /\ KfIdle /\ PgIdle
  /\ AlIdle /\ B32Idle /\ B43Idle /\ PpIdle /\ HdIdle /\ SnIdle /\ MnIdle
  /\ ItIdle /\ FmIdle /\ InfIdle
  /\ LzIdle

NextDeflate == DfDeflate \/ DfInflate \/ DfReset
SpecDeflate == InitAll /\ [][NextDeflate]_vars

NextBbqr == BqEncode \/ BqEncodeLong \/ BqAssemble \/ BqDecode \/ BqReset
SpecBbqr == InitAll /\ [][NextBbqr]_vars

NextKef == KefEncrypt \/ KefTamper \/ KefDecrypt \/ KefReset
SpecKef == InitAll /\ [][NextKef]_vars

NextPage ==
  PgOpen \/ PgPasswordReady \/ PgCancel \/ PgDestroy \/ PgPoll \/ PgWorker
SpecPage == InitAll /\ [][NextPage]_vars

NextAlloc == AlCall \/ AlAttempt \/ AlReset
SpecAlloc == InitAll /\ [][NextAlloc]_vars

NextMnemonic == MnToSeedqr \/ MnToCompact \/ MnFromSeedqr \/ MnFromCompact \/ MnReset
SpecMnemonic == InitAll /\ [][NextMnemonic]_vars

NextBase32 == B32Encode \/ B32Decode \/ B32DecodeText \/ B32Reencode \/ B32Reset
SpecBase32 == InitAll /\ [][NextBase32]_vars

NextBase43 == B43Encode \/ B43Reset
SpecBase43 == InitAll /\ [][NextBase43]_vars

NextParse == PpParse \/ PpReset
SpecParse == InitAll /\ [][NextParse]_vars


NextHeader == HdParse \/ HdIsEnvelope \/ HdDisplayName \/ HdDecrypt \/ HdReset

SpecHeader == InitAll /\ [][NextHeader]_vars

NextStorage == SnSanitize \/ SnReset

SpecStorage == InitAll /\ [][NextStorage]_vars

NextIter == ItEncode \/ ItDecode \/ ItReset
SpecIter == InitAll /\ [][NextIter]_vars

NextInflate == InfCall \/ InfReset
SpecInflate == InitAll /\ [][NextInflate]_vars

NextFormat == FmDetect \/ FmRoundTrip \/ FmReset
SpecFormat == InitAll /\ [][NextFormat]_vars

NextLz == LzStart \/ LzStep \/ LzFinish \/ LzReset
SpecLz == InitAll /\ [][NextLz]_vars
====
